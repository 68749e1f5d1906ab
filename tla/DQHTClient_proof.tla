-------------------------- MODULE DQHTClient_proof --------------------------
(***************************************************************************)
(* For any keys, hash function and sizes: the linked list of the           *)
(* DequeueHashTable stays sound while its client pushes absent keys.       *)
(***************************************************************************)
EXTENDS DQHTClient, HashTable_proof, SequenceTheorems

\* The nodes of N, in the order of s, are the list from head to tail.
Linked(t, N, s, len) ==
    /\ len \in Nat /\ s \in [1 .. len -> N] /\ N \subseteq LiveNodes(t)
    /\ \A n \in N : \E i \in 1 .. len : s[i] = n
    /\ \A i, j \in 1 .. len : s[i] = s[j] => i = j
    /\ t.head = (IF len = 0 THEN NULL ELSE s[1])
    /\ t.tail = (IF len = 0 THEN NULL ELSE s[len])
    /\ \A i \in 1 .. len : /\ t.node[s[i]].prev = (IF i = 1 THEN NULL ELSE s[i - 1])
                           /\ t.node[s[i]].next = (IF i = len THEN NULL ELSE s[i + 1])

LEMMA LinkedSame ==
    ASSUME NEW t, NEW u, NEW N, NEW s, NEW len, Linked(t, N, s, len), N \subseteq LiveNodes(u),
           u.head = t.head, u.tail = t.tail,
           \A n \in N : u.node[n].prev = t.node[n].prev /\ u.node[n].next = t.node[n].next
    PROVE  Linked(u, N, s, len)
BY DEF Linked

\* No list is longer than there are nodes.
LEMMA LengthBound ==
    ASSUME NEW t, NEW N, NEW s, NEW len, Linked(t, N, s, len) PROVE len <= MaxNodes
<1> DEFINE S == 1 .. len
<1>1. IsFiniteSet(S) /\ Cardinality(S) = len
  BY FS_Interval DEF Linked
<1>2. IsFiniteSet(Nodes) /\ Cardinality(Nodes) = MaxNodes
  BY FS_Interval, NodesAssumption DEF Nodes
<1>3. s \in [S -> Nodes] /\ \A i, j \in S : s[i] = s[j] => i = j
  BY DEF Linked, LiveNodes
<1>4. len \in Nat /\ MaxNodes \in Nat
  BY NodesAssumption DEF Linked
<1> HIDE DEF S
<1>5. ~(Cardinality(Nodes) < Cardinality(S))
  BY <1>1, <1>2, <1>3, FS_PigeonHole
<1> QED
  BY <1>1, <1>2, <1>4, <1>5

-----------------------------------------------------------------------------
(* Walking the list                                                        *)

\* The walk from the head is the recursive function of its steps.
LEMMA WalkExists ==
    ASSUME NEW t, NEW N \in Nat
    PROVE  \E f : f = [i \in 0 .. N |-> IF i = 0 THEN t.head ELSE Following(t, f[i - 1])]
<1> DEFINE Body(f, n) == [i \in 0 .. n |-> IF i = 0 THEN t.head ELSE Following(t, f[i - 1])]
           S == {n \in Nat : \E f : f = Body(f, n)}
<1>1. 0 \in S
  <2> DEFINE f == [i \in 0 .. 0 |-> t.head]
  <2>1. f = Body(f, 0)
    OBVIOUS
  <2> QED
    BY <2>1
<1>2. ASSUME NEW n \in Nat, n \in S PROVE n + 1 \in S
  <2>1. PICK f : f = Body(f, n)
    BY <1>2
  <2> DEFINE last == Following(t, f[n])
             g == [i \in 0 .. n + 1 |-> IF i = n + 1 THEN last ELSE f[i]]
  <2>2. ASSUME NEW i \in 0 .. n + 1
        PROVE  g[i] = IF i = 0 THEN t.head ELSE Following(t, g[i - 1])
    <3>1. CASE i = n + 1
      <4>1. g[n] = f[n] /\ i # 0 /\ i - 1 = n /\ g[i] = last
        BY <3>1
      <4> HIDE DEF g
      <4> QED
        BY <4>1
    <3>2. CASE i # n + 1
      <4>1. i \in 0 .. n /\ (i # 0 => i - 1 \in 0 .. n)
        BY <3>2
      <4>2. g[i] = f[i] /\ (i # 0 => g[i - 1] = f[i - 1])
        BY <4>1
      <4>3. f[i] = IF i = 0 THEN t.head ELSE Following(t, f[i - 1])
        BY <2>1, <4>1
      <4> HIDE DEF g
      <4> QED
        BY <4>2, <4>3
    <3> QED
      BY <3>1, <3>2
  <2>3. g = Body(g, n + 1)
    BY <2>2
  <2> HIDE DEF g
  <2> QED
    BY <2>3
<1> HIDE DEF S
<1>3. Nat \subseteq S
  BY <1>1, <1>2, SetInduction
<1> QED
  BY <1>3 DEF S

LEMMA WalkSteps ==
    ASSUME NEW t
    PROVE  /\ Walk(t)[0] = t.head
           /\ \A i \in 1 .. MaxNodes : Walk(t)[i] = Following(t, Walk(t)[i - 1])
<1> DEFINE Body(f) == [i \in 0 .. MaxNodes |-> IF i = 0 THEN t.head ELSE Following(t, f[i - 1])]
<1>1. \E f : f = Body(f)
  BY WalkExists, NodesAssumption
<1>2. Walk(t) = CHOOSE f : f = Body(f)
  BY DEF Walk
<1>3. Walk(t) = Body(Walk(t))
  BY <1>1, <1>2
<1> QED
  BY <1>3, NodesAssumption

\* The walk meets the list in its order, and then its end.
LEMMA WalkIs ==
    ASSUME NEW t, NEW N, NEW s, NEW len, Linked(t, N, s, len), NEW i \in 0 .. MaxNodes
    PROVE  Walk(t)[i] = IF i < len THEN s[i + 1] ELSE NULL
<1> DEFINE At(j) == Walk(t)[j] = IF j < len THEN s[j + 1] ELSE NULL
           S == {j \in Nat : j <= MaxNodes => At(j)}
<1>1. 0 \in S
  BY WalkSteps DEF Linked
<1>2. ASSUME NEW j \in Nat, j \in S PROVE j + 1 \in S
  <2> SUFFICES ASSUME j + 1 <= MaxNodes PROVE At(j + 1)
    OBVIOUS
  <2>1. j + 1 \in 1 .. MaxNodes /\ (j + 1) - 1 = j /\ j <= MaxNodes
    BY NodesAssumption
  <2>2. Walk(t)[j + 1] = Following(t, Walk(t)[j]) /\ At(j)
    BY <1>2, <2>1, WalkSteps
  <2>3. CASE j < len
    <3>1. j + 1 \in 1 .. len /\ s[j + 1] # NULL
      BY <2>3, NullNode DEF Linked, LiveNodes
    <3>2. t.node[s[j + 1]].next = IF j + 1 = len THEN NULL ELSE s[(j + 1) + 1]
      BY <3>1 DEF Linked
    <3>3. j + 1 < len <=> j + 1 # len
      BY <3>1 DEF Linked
    <3> QED
      BY <2>2, <2>3, <3>1, <3>2, <3>3 DEF Following
  <2>4. CASE ~(j < len)
    <3>1. ~(j + 1 < len)
      BY <2>4 DEF Linked
    <3> QED
      BY <2>2, <2>4, <3>1 DEF Following
  <2> QED
    BY <2>3, <2>4
<1> HIDE DEF S
<1>3. Nat \subseteq S
  BY <1>1, <1>2, SetInduction
<1>4. i \in S /\ i <= MaxNodes
  BY <1>3, NodesAssumption
<1> QED
  BY <1>4 DEF S

LEMMA ChainIs ==
    ASSUME NEW t, NEW N, NEW s, NEW len, Linked(t, N, s, len)
    PROVE  Chain(t) = N /\ ~Cyclic(t)
<1>0. len <= MaxNodes
  BY LengthBound
<1>1. len \in Nat /\ len <= MaxNodes /\ MaxNodes \in Nat \ {0}
  BY <1>0, NodesAssumption DEF Linked
<1>2. ~Cyclic(t)
  BY <1>1, WalkIs DEF Cyclic
<1>3. ASSUME NEW i \in 0 .. MaxNodes PROVE Walk(t)[i] \in N \cup {NULL}
  <2>1. i < len => i + 1 \in 1 .. len
    BY <1>1
  <2>2. Walk(t)[i] = IF i < len THEN s[i + 1] ELSE NULL
    BY WalkIs
  <2> QED
    BY <2>1, <2>2 DEF Linked
<1>4. ASSUME NEW n \in N PROVE n # NULL /\ \E i \in 0 .. MaxNodes : Walk(t)[i] = n
  <2>1. PICK j \in 1 .. len : s[j] = n
    BY DEF Linked
  <2>2. j - 1 \in 0 .. MaxNodes /\ j - 1 < len /\ (j - 1) + 1 = j
    BY <1>1
  <2>3. Walk(t)[j - 1] = n
    BY <2>1, <2>2, WalkIs
  <2> QED
    BY <2>2, <2>3, NullNode DEF Linked, LiveNodes
<1>5. Chain(t) = {Walk(t)[i] : i \in 0 .. MaxNodes} \ {NULL}
  BY DEF Chain
<1> QED
  BY <1>2, <1>3, <1>4, <1>5

\* dqht_print_table ends, and reads no freed node.
LEMMA PrintedSame ==
    ASSUME NEW t, NEW N, NEW s, NEW len, Linked(t, N, s, len) PROVE Printed(t) = t
<1>1. Chain(t) = N /\ ~Cyclic(t)
  BY ChainIs
<1>2. t.tail # NULL => t.tail \in N
  BY DEF Linked
<1>3. ASSUME NEW n \in N PROVE Reads(t, n) \subseteq N
  <2>1. PICK i \in 1 .. len : s[i] = n
    BY DEF Linked
  <2>2. t.node[n].prev # NULL => i - 1 \in 1 .. len /\ t.node[n].prev = s[i - 1]
    BY <2>1 DEF Linked
  <2>3. t.node[n].next # NULL => i + 1 \in 1 .. len /\ t.node[n].next = s[i + 1]
    BY <2>1 DEF Linked
  <2>4. s \in [1 .. len -> N]
    BY DEF Linked
  <2>5. t.node[n].prev # NULL => t.node[n].prev \in N
    BY <2>2, <2>4
  <2>6. t.node[n].next # NULL => t.node[n].next \in N
    BY <2>3, <2>4
  <2> QED
    BY <2>5, <2>6 DEF Reads
<1>4. \A n \in UNION {Reads(t, m) : m \in Chain(t) \cup ({t.tail} \ {NULL})} : Live(t, n)
  BY <1>1, <1>2, <1>3 DEF Linked, LiveNodes
<1> QED
  BY <1>1, <1>4 DEF Printed

-----------------------------------------------------------------------------
(* Linking                                                                 *)

\* u is t with other links.
LinksOnly(t, u) ==
    /\ u \in Table(t.size) /\ u.size = t.size /\ u.items = t.items
    /\ u.count = t.count /\ u.fault = t.fault
    /\ \A n \in Nodes : /\ u.node[n].key = t.node[n].key /\ u.node[n].ptr = t.node[n].ptr
                        /\ u.node[n].index = t.node[n].index

LEMMA LinksKeep ==
    ASSUME NEW t, TableInv(t), NEW u, LinksOnly(t, u)
    PROVE  TableInv(u) /\ LiveNodes(u) = LiveNodes(t)
<1>1. LiveNodes(u) = LiveNodes(t)
  BY DEF LinksOnly, LiveNodes, Live
<1>2. SlotsExact(u)
  <2> SUFFICES ASSUME NEW j \in 0 .. t.size - 1, t.items[j] # NULL
               PROVE  Live(u, t.items[j]) /\ u.node[t.items[j]].index = j
    BY DEF SlotsExact, LinksOnly
  <2>1. t.items[j] \in Nodes
    BY DEF TableInv, Table
  <2> QED
    BY <2>1 DEF LinksOnly, TableInv, SlotsExact, Live
<1>3. IndexesExact(u)
  BY <1>1 DEF LinksOnly, TableInv, IndexesExact, LiveNodes
<1>4. KeysOnce(u)
  BY <1>1 DEF LinksOnly, TableInv, KeysOnce, LiveNodes
<1> QED
  BY <1>1, <1>2, <1>3, <1>4 DEF LinksOnly, TableInv

\* The list s without its i-th node, and with n at one of its ends.
CutAt(s, len, i) == [j \in 1 .. len - 1 |-> IF j < i THEN s[j] ELSE s[j + 1]]
WithLast(s, len, n) == [j \in 1 .. len + 1 |-> IF j = len + 1 THEN n ELSE s[j]]
WithFirst(s, len, n) == [j \in 1 .. len + 1 |-> IF j = 1 THEN n ELSE s[j - 1]]

\* dqht_unlink takes a node out of the list, wherever in it the node is.
LEMMA BypassKeeps ==
    ASSUME NEW t, TableInv(t), t.fault = "none", NEW N, NEW s, NEW len, Linked(t, N, s, len),
           NEW n \in N, NEW i \in 1 .. len, s[i] = n
    PROVE  LET u == Bypassed(t, n)
           IN  LinksOnly(t, u) /\ Linked(u, N \ {n}, CutAt(s, len, i), len - 1)
<1> DEFINE u == Bypassed(t, n)
           p == t.node[n].prev
           q == t.node[n].next
           node == [m \in Nodes |-> [t.node[m] EXCEPT !.next = IF m = p THEN q ELSE @,
                                                     !.prev = IF m = q THEN p ELSE @]]
<1>1. s[i] = n
  OBVIOUS
<1>2. len \in Nat /\ N \subseteq Nodes /\ NULL \notin N /\ \A j \in 1 .. len : s[j] \in N
  BY NullNode DEF Linked, LiveNodes
<1>3. /\ p = (IF i = 1 THEN NULL ELSE s[i - 1]) /\ q = (IF i = len THEN NULL ELSE s[i + 1])
      /\ i # 1 => i - 1 \in 1 .. len
      /\ i # len => i + 1 \in 1 .. len
  <2>1. p = (IF i = 1 THEN NULL ELSE s[i - 1]) /\ q = (IF i = len THEN NULL ELSE s[i + 1])
    BY <1>1 DEF Linked
  <2> QED
    BY <1>2, <2>1
<1>4. p \in N \cup {NULL} /\ q \in N \cup {NULL}
  BY <1>2, <1>3
<1>5. t \in Table(t.size) /\ t.node \in [Nodes -> Node]
  BY DEF TableInv, Table
<1> HIDE DEF p, q
<1>6. /\ \A m \in Nodes : /\ node[m].key = t.node[m].key /\ node[m].ptr = t.node[m].ptr
                          /\ node[m].index = t.node[m].index
                          /\ node[m].next = (IF m = p THEN q ELSE t.node[m].next)
                          /\ node[m].prev = (IF m = q THEN p ELSE t.node[m].prev)
      /\ node \in [Nodes -> Node]
  <2>1. p \in Nodes \cup {NULL} /\ q \in Nodes \cup {NULL}
    BY <1>2, <1>4
  <2>2. ASSUME NEW m \in Nodes
        PROVE  /\ node[m].key = t.node[m].key /\ node[m].ptr = t.node[m].ptr
               /\ node[m].index = t.node[m].index
               /\ node[m].next = (IF m = p THEN q ELSE t.node[m].next)
               /\ node[m].prev = (IF m = q THEN p ELSE t.node[m].prev)
               /\ node[m] \in Node
    <3> DEFINE a == IF m = p THEN q ELSE t.node[m].next
               b == IF m = q THEN p ELSE t.node[m].prev
    <3>1. t.node[m] \in Node
      BY <1>5
    <3>2. a \in Nodes \cup {NULL} /\ b \in Nodes \cup {NULL}
      BY <2>1, <3>1 DEF Node
    <3>3. node[m] = [t.node[m] EXCEPT !.next = a, !.prev = b]
      BY <3>1 DEF Node
    <3> HIDE DEF a, b, node
    <3>4. /\ node[m].key = t.node[m].key /\ node[m].ptr = t.node[m].ptr
          /\ node[m].index = t.node[m].index /\ node[m].next = a /\ node[m].prev = b
          /\ node[m] \in Node
      BY <3>1, <3>2, <3>3 DEF Node
    <3> QED
      BY <3>4 DEF a, b
  <2>3. node \in [Nodes -> Node]
    BY <2>2
  <2> HIDE DEF node
  <2> QED
    BY <2>2, <2>3
<1>7. u = [t EXCEPT !.head = IF p = NULL THEN q ELSE @, !.tail = IF q = NULL THEN p ELSE @,
                    !.node = node]
  <2>1. \A m \in {p, q} \ {NULL} : Live(t, m)
    BY <1>4 DEF Linked, LiveNodes
  <2>2. ~\E m \in {p, q} \ {NULL} : ~Live(t, m)
    BY <2>1
  <2>3. u = IF t.fault # "none" THEN t
            ELSE IF \E m \in {p, q} \ {NULL} : ~Live(t, m) THEN [t EXCEPT !.fault = "abort"]
            ELSE [t EXCEPT !.head = IF p = NULL THEN q ELSE @,
                           !.tail = IF q = NULL THEN p ELSE @, !.node = node]
    BY Zenon DEF Bypassed, p, q
  <2> HIDE DEF u, node
  <2> QED
    BY <2>2, <2>3
<1> HIDE DEF u, node
<1>8. /\ u \in Table(t.size) /\ u.size = t.size /\ u.items = t.items /\ u.count = t.count
      /\ u.fault = t.fault /\ u.node = node
      /\ u.head = (IF p = NULL THEN q ELSE t.head) /\ u.tail = (IF q = NULL THEN p ELSE t.tail)
  BY <1>2, <1>4, <1>5, <1>6, <1>7 DEF Table
<1>9. LinksOnly(t, u)
  BY <1>6, <1>8 DEF LinksOnly
<1>10. LiveNodes(u) = LiveNodes(t)
  BY <1>9, LinksKeep
<1> DEFINE z == [j \in 1 .. len - 1 |-> IF j < i THEN s[j] ELSE s[j + 1]]
           M == N \ {n}
<1>11. \A j, k \in 1 .. len : s[j] = s[k] => j = k
  BY DEF Linked
<1>12. \A j \in 1 .. len - 1 : /\ j < i => j \in 1 .. len /\ z[j] = s[j] /\ j # i
                              /\ ~(j < i) => j + 1 \in 1 .. len /\ z[j] = s[j + 1] /\ j + 1 # i
  BY <1>2
<1>13. z \in [1 .. len - 1 -> M] /\ len - 1 \in Nat
  <2>1. \A j \in 1 .. len - 1 : z[j] \in M
    BY <1>1, <1>2, <1>11, <1>12
  <2> QED
    BY <1>2, <2>1
<1>14. ASSUME NEW m \in M PROVE \E j \in 1 .. len - 1 : z[j] = m
  <2>1. PICK k \in 1 .. len : s[k] = m
    BY DEF Linked
  <2>2. k # i
    BY <1>1, <2>1
  <2>3. CASE k < i
    <3>1. k \in 1 .. len - 1
      BY <1>2, <2>3
    <3> QED
      BY <1>12, <2>1, <2>3, <3>1
  <2>4. CASE k > i
    <3>1. k - 1 \in 1 .. len - 1 /\ ~(k - 1 < i) /\ (k - 1) + 1 = k
      BY <1>2, <2>4
    <3> QED
      BY <1>12, <2>1, <3>1
  <2> QED
    BY <2>2, <2>3, <2>4
<1>15. \A j, k \in 1 .. len - 1 : z[j] = z[k] => j = k
  BY <1>2, <1>11, <1>12
<1>16. M \subseteq LiveNodes(u)
  BY <1>10 DEF Linked
<1>17. /\ t.head = (IF len = 0 THEN NULL ELSE s[1]) /\ t.tail = (IF len = 0 THEN NULL ELSE s[len])
       /\ \A j \in 1 .. len : /\ t.node[s[j]].prev = (IF j = 1 THEN NULL ELSE s[j - 1])
                              /\ t.node[s[j]].next = (IF j = len THEN NULL ELSE s[j + 1])
  BY DEF Linked
<1> HIDE DEF M
<1>18. u.head = (IF len - 1 = 0 THEN NULL ELSE z[1])
  <2>1. CASE i = 1
    <3>1. u.head = q
      BY <1>3, <1>8, <2>1
    <3>2. len # 1 => 1 \in 1 .. len - 1 /\ z[1] = s[2]
      BY <1>2, <2>1
    <3> QED
      BY <1>2, <1>3, <2>1, <3>1, <3>2
  <2>2. CASE i # 1
    <3>1. u.head = t.head /\ p # NULL
      BY <1>2, <1>3, <1>8, <2>2
    <3>2. len > 1 /\ 1 \in 1 .. len - 1 /\ z[1] = s[1]
      BY <1>2, <2>2
    <3> QED
      BY <1>17, <3>1, <3>2
  <2> QED
    BY <2>1, <2>2
<1>19. u.tail = (IF len - 1 = 0 THEN NULL ELSE z[len - 1])
  <2>1. CASE i = len
    <3>1. u.tail = p
      BY <1>3, <1>8, <2>1
    <3>2. len # 1 => len - 1 \in 1 .. len - 1 /\ z[len - 1] = s[len - 1]
      BY <1>2, <2>1
    <3> QED
      BY <1>2, <1>3, <2>1, <3>1, <3>2
  <2>2. CASE i # len
    <3>1. u.tail = t.tail /\ q # NULL
      BY <1>2, <1>3, <1>8, <2>2
    <3>2. len > 1 /\ len - 1 \in 1 .. len - 1 /\ ~(len - 1 < i) /\ z[len - 1] = s[len]
      BY <1>2, <2>2
    <3> QED
      BY <1>17, <3>1, <3>2
  <2> QED
    BY <2>1, <2>2
<1>20. ASSUME NEW j \in 1 .. len - 1
       PROVE  /\ u.node[z[j]].prev = (IF j = 1 THEN NULL ELSE z[j - 1])
              /\ u.node[z[j]].next = (IF j = len - 1 THEN NULL ELSE z[j + 1])
  <2> DEFINE m == z[j]
             k == IF j < i THEN j ELSE j + 1
  <2>1. k \in 1 .. len /\ m = s[k] /\ k # i /\ m \in Nodes
    BY <1>2, <1>12
  <2>2. /\ u.node[m].next = (IF m = p THEN q ELSE t.node[m].next)
        /\ u.node[m].prev = (IF m = q THEN p ELSE t.node[m].prev)
    BY <1>6, <1>8, <2>1
  <2>3. m = p <=> k + 1 = i
    BY <1>2, <1>3, <1>11, <2>1
  <2>4. m = q <=> k = i + 1
    BY <1>2, <1>3, <1>11, <2>1
  <2>5. u.node[m].prev = (IF j = 1 THEN NULL ELSE z[j - 1])
    <3>1. CASE k = i + 1
      <4>1. j = i /\ u.node[m].prev = p
        BY <1>2, <2>1, <2>2, <2>4, <3>1
      <4>2. j # 1 => j - 1 \in 1 .. len - 1 /\ j - 1 < i
        BY <1>2, <4>1
      <4>3. j # 1 => z[j - 1] = s[j - 1]
        BY <1>12, <4>2
      <4> QED
        BY <1>3, <4>1, <4>3
    <3>2. CASE k # i + 1
      <4>1. u.node[m].prev = (IF k = 1 THEN NULL ELSE s[k - 1])
        BY <1>17, <2>1, <2>2, <2>4, <3>2
      <4>2. (k = 1) <=> (j = 1)
        BY <2>1, <3>2
      <4>3. j # 1 => j - 1 \in 1 .. len - 1 /\ (j - 1 < i <=> j < i)
        BY <1>2, <2>1, <3>2
      <4>4. j # 1 => z[j - 1] = s[k - 1]
        BY <1>2, <1>12, <4>3
      <4> QED
        BY <4>1, <4>2, <4>4
    <3> QED
      BY <3>1, <3>2
  <2>6. u.node[m].next = (IF j = len - 1 THEN NULL ELSE z[j + 1])
    <3>1. CASE k + 1 = i
      <4>1. j = k /\ j + 1 = i /\ u.node[m].next = q
        BY <1>2, <2>1, <2>2, <2>3, <3>1
      <4>2. j # len - 1 => j + 1 \in 1 .. len - 1 /\ z[j + 1] = s[i + 1]
        BY <1>2, <4>1
      <4> QED
        BY <1>2, <1>3, <4>1, <4>2
    <3>2. CASE k + 1 # i
      <4>1. u.node[m].next = (IF k = len THEN NULL ELSE s[k + 1])
        BY <1>17, <2>1, <2>2, <2>3, <3>2
      <4>2. (k = len) <=> (j = len - 1)
        BY <1>2, <2>1, <3>2
      <4>3. j # len - 1 => j + 1 \in 1 .. len - 1 /\ z[j + 1] = s[k + 1]
        BY <1>2, <1>12, <2>1, <3>2
      <4> QED
        BY <4>1, <4>2, <4>3
    <3> QED
      BY <3>1, <3>2
  <2> QED
    BY <2>5, <2>6
<1> HIDE DEF z
<1>21. Linked(u, M, z, len - 1)
  BY <1>13, <1>14, <1>15, <1>16, <1>18, <1>19, <1>20 DEF Linked
<1> QED
  BY <1>9, <1>21, Zenon DEF u, M, z, CutAt

\* dqht_unlink with its two walks over the list.
LEMMA UnlinkKeeps ==
    ASSUME NEW t, TableInv(t), t.fault = "none", NEW N, NEW s, NEW len, Linked(t, N, s, len),
           NEW n \in N, NEW i \in 1 .. len, s[i] = n
    PROVE  LET u == Unlinked(t, n)
           IN  LinksOnly(t, u) /\ Linked(u, N \ {n}, CutAt(s, len, i), len - 1)
<1>1. Printed(t) = t
  BY PrintedSame
<1>2. LinksOnly(t, Bypassed(t, n)) /\ Linked(Bypassed(t, n), N \ {n}, CutAt(s, len, i), len - 1)
  BY BypassKeeps
<1>3. Unlinked(t, n) = Bypassed(t, n)
  BY <1>1, <1>2, PrintedSame DEF Unlinked
<1> QED
  BY <1>2, <1>3

\* A fresh node is linked behind the tail.
LEMMA LastKeeps ==
    ASSUME NEW t, TableInv(t), NEW N, NEW s, NEW len, Linked(t, N, s, len),
           NEW n \in LiveNodes(t) \ N, t.node[n].prev = NULL, t.node[n].next = NULL
    PROVE  LET u == LinkedLast(t, n)
           IN  LinksOnly(t, u) /\ Linked(u, N \cup {n}, WithLast(s, len, n), len + 1)
<1> DEFINE u == LinkedLast(t, n)
           M == N \cup {n}
           z == [j \in 1 .. len + 1 |-> IF j = len + 1 THEN n ELSE s[j]]
<1>1. /\ len \in Nat /\ N \subseteq LiveNodes(t) /\ n \in Nodes /\ n \notin N /\ NULL \notin N
      /\ n # NULL /\ N \subseteq Nodes /\ \A j \in 1 .. len : s[j] \in N
  BY NullNode DEF Linked, LiveNodes
<1>2. /\ t.head = (IF len = 0 THEN NULL ELSE s[1]) /\ t.tail = (IF len = 0 THEN NULL ELSE s[len])
      /\ \A j \in 1 .. len : /\ t.node[s[j]].prev = (IF j = 1 THEN NULL ELSE s[j - 1])
                             /\ t.node[s[j]].next = (IF j = len THEN NULL ELSE s[j + 1])
      /\ \A j, k \in 1 .. len : s[j] = s[k] => j = k
      /\ \A m \in N : \E j \in 1 .. len : s[j] = m
  BY DEF Linked
<1>3. t \in Table(t.size) /\ t.node \in [Nodes -> Node]
  BY DEF TableInv, Table
<1>4. len # 0 => len \in 1 .. len /\ t.tail = s[len] /\ t.tail \in N
  BY <1>1, <1>2
<1>5. /\ LinksOnly(t, u) /\ u.tail = n
      /\ u.head = (IF len = 0 THEN n ELSE t.head)
      /\ \A m \in Nodes : /\ u.node[m].prev = (IF m = n THEN t.tail ELSE t.node[m].prev)
                          /\ u.node[m].next = (IF len # 0 /\ m = t.tail THEN n ELSE t.node[m].next)
  <2>1. CASE len = 0
    <3>1. t.tail = NULL /\ u = [t EXCEPT !.head = n, !.tail = n]
      BY <1>2, <2>1 DEF LinkedLast
    <3>2. /\ u \in Table(t.size) /\ u.size = t.size /\ u.items = t.items /\ u.count = t.count
          /\ u.fault = t.fault /\ u.node = t.node /\ u.head = n /\ u.tail = n
      BY <1>1, <1>3, <3>1 DEF Table
    <3> HIDE DEF u
    <3> QED
      BY <2>1, <3>1, <3>2 DEF LinksOnly
  <2>2. CASE len # 0
    <3> DEFINE q == t.tail
               node == [t.node EXCEPT ![q].next = n, ![n].prev = q]
    <3>1. q \in Nodes /\ q # NULL /\ q # n
      BY <1>1, <1>4, <2>2
    <3>2. u = [t EXCEPT !.node = node, !.tail = n]
      <4>1. u = [t EXCEPT !.node[q].next = n, !.node[n].prev = q, !.tail = n]
        BY <3>1, Zenon DEF LinkedLast
      <4> HIDE DEF u, q
      <4> QED
        BY <1>3, <4>1 DEF Table
    <3> HIDE DEF q
    <3>3. /\ node \in [Nodes -> Node]
          /\ \A m \in Nodes : /\ node[m].key = t.node[m].key /\ node[m].ptr = t.node[m].ptr
                              /\ node[m].index = t.node[m].index
                              /\ node[m].prev = (IF m = n THEN q ELSE t.node[m].prev)
                              /\ node[m].next = (IF m = q THEN n ELSE t.node[m].next)
      BY <1>1, <1>3, <3>1 DEF Node
    <3> HIDE DEF node, u
    <3>4. /\ u \in Table(t.size) /\ u.size = t.size /\ u.items = t.items /\ u.count = t.count
          /\ u.fault = t.fault /\ u.node = node /\ u.head = t.head /\ u.tail = n
      BY <1>1, <1>3, <3>2, <3>3 DEF Table
    <3> QED
      BY <2>2, <3>3, <3>4 DEF LinksOnly, q
  <2> QED
    BY <2>1, <2>2
<1>6. LiveNodes(u) = LiveNodes(t)
  BY <1>5, LinksKeep
<1> HIDE DEF u
<1>7. /\ z[len + 1] = n /\ len + 1 \in Nat /\ len + 1 # 0
      /\ \A j \in 1 .. len : j \in 1 .. len + 1 /\ z[j] = s[j]
      /\ \A j \in 1 .. len + 1 : j # len + 1 => j \in 1 .. len
  BY <1>1
<1>8. z \in [1 .. len + 1 -> M]
  <2>1. \A j \in 1 .. len + 1 : z[j] \in M
    BY <1>1, <1>7
  <2> QED
    BY <2>1
<1> HIDE DEF z
<1>9. \A m \in M : \E j \in 1 .. len + 1 : z[j] = m
  <2>1. len + 1 \in 1 .. len + 1
    BY <1>1
  <2> QED
    BY <1>2, <1>7, <2>1
<1>10. \A j, k \in 1 .. len + 1 : z[j] = z[k] => j = k
  BY <1>1, <1>2, <1>7
<1>11. u.head = z[1] /\ u.tail = z[len + 1]
  <2>1. CASE len = 0
    BY <1>5, <1>7, <2>1
  <2>2. CASE len # 0
    <3>1. 1 \in 1 .. len
      BY <1>1, <2>2
    <3> QED
      BY <1>2, <1>5, <1>7, <2>2, <3>1
  <2> QED
    BY <2>1, <2>2
<1>12. ASSUME NEW j \in 1 .. len + 1
       PROVE  /\ u.node[z[j]].prev = (IF j = 1 THEN NULL ELSE z[j - 1])
              /\ u.node[z[j]].next = (IF j = len + 1 THEN NULL ELSE z[j + 1])
  <2>1. CASE j = len + 1
    <3>1. z[j] = n /\ u.node[n].prev = t.tail /\ u.node[n].next = NULL
      BY <1>1, <1>4, <1>5, <1>7, <2>1
    <3>2. j # 1 => j - 1 = len /\ z[len] = s[len]
      BY <1>1, <1>4, <1>7, <2>1
    <3>3. j = 1 <=> len = 0
      BY <1>1, <2>1
    <3> QED
      BY <1>2, <1>4, <2>1, <3>1, <3>2, <3>3
  <2>2. CASE j # len + 1
    <3>1. j \in 1 .. len /\ z[j] = s[j] /\ s[j] \in Nodes /\ s[j] # n /\ len # 0
      BY <1>1, <1>7, <2>2
    <3>2. u.node[s[j]].prev = (IF j = 1 THEN NULL ELSE s[j - 1])
      BY <1>2, <1>5, <3>1
    <3>3. j # 1 => j - 1 \in 1 .. len
      BY <1>1, <3>1
    <3>4. s[j] = t.tail <=> j = len
      BY <1>2, <1>4, <3>1
    <3>5. u.node[s[j]].next = (IF j = len THEN n ELSE s[j + 1])
      BY <1>2, <1>5, <3>1, <3>4
    <3>6. j # len => j + 1 \in 1 .. len
      BY <1>1, <3>1
    <3> QED
      BY <1>7, <2>2, <3>1, <3>2, <3>3, <3>5, <3>6
  <2> QED
    BY <2>1, <2>2
<1>13. Linked(u, M, z, len + 1)
  <2>1. M \subseteq LiveNodes(u)
    BY <1>1, <1>6
  <2> HIDE DEF M
  <2> QED
    BY <1>7, <1>8, <1>9, <1>10, <1>11, <1>12, <2>1 DEF Linked
<1> QED
  BY <1>5, <1>13, Zenon DEF u, M, z, WithLast

\* A fresh node is linked before the head.
LEMMA FrontKeeps ==
    ASSUME NEW t, TableInv(t), NEW N, NEW s, NEW len, Linked(t, N, s, len),
           NEW n \in LiveNodes(t) \ N, t.node[n].prev = NULL, t.node[n].next = NULL
    PROVE  LET u == LinkedFront(t, n)
           IN  LinksOnly(t, u) /\ Linked(u, N \cup {n}, WithFirst(s, len, n), len + 1)
<1> DEFINE u == LinkedFront(t, n)
           M == N \cup {n}
           z == [j \in 1 .. len + 1 |-> IF j = 1 THEN n ELSE s[j - 1]]
<1>1. /\ len \in Nat /\ N \subseteq LiveNodes(t) /\ n \in Nodes /\ n \notin N /\ NULL \notin N
      /\ n # NULL /\ N \subseteq Nodes /\ \A j \in 1 .. len : s[j] \in N
  BY NullNode DEF Linked, LiveNodes
<1>2. /\ t.head = (IF len = 0 THEN NULL ELSE s[1]) /\ t.tail = (IF len = 0 THEN NULL ELSE s[len])
      /\ \A j \in 1 .. len : /\ t.node[s[j]].prev = (IF j = 1 THEN NULL ELSE s[j - 1])
                             /\ t.node[s[j]].next = (IF j = len THEN NULL ELSE s[j + 1])
      /\ \A j, k \in 1 .. len : s[j] = s[k] => j = k
      /\ \A m \in N : \E j \in 1 .. len : s[j] = m
  BY DEF Linked
<1>3. t \in Table(t.size) /\ t.node \in [Nodes -> Node]
  BY DEF TableInv, Table
<1>4. len # 0 => 1 \in 1 .. len /\ t.head = s[1] /\ t.head \in N
  BY <1>1, <1>2
<1>5. /\ LinksOnly(t, u) /\ u.head = n
      /\ u.tail = (IF len = 0 THEN n ELSE t.tail)
      /\ \A m \in Nodes : /\ u.node[m].next = (IF m = n THEN t.head ELSE t.node[m].next)
                          /\ u.node[m].prev = (IF len # 0 /\ m = t.head THEN n ELSE t.node[m].prev)
  <2>1. CASE len = 0
    <3>1. t.head = NULL /\ u = [t EXCEPT !.head = n, !.tail = n]
      BY <1>2, <2>1 DEF LinkedFront
    <3>2. /\ u \in Table(t.size) /\ u.size = t.size /\ u.items = t.items /\ u.count = t.count
          /\ u.fault = t.fault /\ u.node = t.node /\ u.head = n /\ u.tail = n
      BY <1>1, <1>3, <3>1 DEF Table
    <3> HIDE DEF u
    <3> QED
      BY <2>1, <3>1, <3>2 DEF LinksOnly
  <2>2. CASE len # 0
    <3> DEFINE q == t.head
               node == [t.node EXCEPT ![q].prev = n, ![n].next = q]
    <3>1. q \in Nodes /\ q # NULL /\ q # n
      BY <1>1, <1>4, <2>2
    <3>2. u = [t EXCEPT !.node = node, !.head = n]
      <4>1. u = [t EXCEPT !.node[q].prev = n, !.node[n].next = q, !.head = n]
        BY <3>1, Zenon DEF LinkedFront
      <4> HIDE DEF u, q
      <4> QED
        BY <1>3, <4>1 DEF Table
    <3> HIDE DEF q
    <3>3. /\ node \in [Nodes -> Node]
          /\ \A m \in Nodes : /\ node[m].key = t.node[m].key /\ node[m].ptr = t.node[m].ptr
                              /\ node[m].index = t.node[m].index
                              /\ node[m].next = (IF m = n THEN q ELSE t.node[m].next)
                              /\ node[m].prev = (IF m = q THEN n ELSE t.node[m].prev)
      BY <1>1, <1>3, <3>1 DEF Node
    <3> HIDE DEF node, u
    <3>4. /\ u \in Table(t.size) /\ u.size = t.size /\ u.items = t.items /\ u.count = t.count
          /\ u.fault = t.fault /\ u.node = node /\ u.tail = t.tail /\ u.head = n
      BY <1>1, <1>3, <3>2, <3>3 DEF Table
    <3> QED
      BY <2>2, <3>3, <3>4 DEF LinksOnly, q
  <2> QED
    BY <2>1, <2>2
<1>6. LiveNodes(u) = LiveNodes(t)
  BY <1>5, LinksKeep
<1> HIDE DEF u
<1>7. /\ z[1] = n /\ len + 1 \in Nat /\ len + 1 # 0 /\ 1 \in 1 .. len + 1
      /\ \A j \in 1 .. len : j + 1 \in 1 .. len + 1 /\ z[j + 1] = s[j]
      /\ \A j \in 1 .. len + 1 : j # 1 => j - 1 \in 1 .. len /\ z[j] = s[j - 1]
  BY <1>1
<1>8. z \in [1 .. len + 1 -> M]
  <2>1. \A j \in 1 .. len + 1 : z[j] \in M
    BY <1>1, <1>7
  <2> QED
    BY <2>1
<1> HIDE DEF z
<1>9. \A m \in M : \E j \in 1 .. len + 1 : z[j] = m
  BY <1>2, <1>7
<1>10. \A j, k \in 1 .. len + 1 : z[j] = z[k] => j = k
  BY <1>1, <1>2, <1>7
<1>11. u.head = z[1] /\ u.tail = z[len + 1]
  <2>1. CASE len = 0
    BY <1>5, <1>7, <2>1
  <2>2. CASE len # 0
    <3>1. len \in 1 .. len
      BY <1>1, <2>2
    <3> QED
      BY <1>2, <1>5, <1>7, <2>2, <3>1
  <2> QED
    BY <2>1, <2>2
<1>12. ASSUME NEW j \in 1 .. len + 1
       PROVE  /\ u.node[z[j]].prev = (IF j = 1 THEN NULL ELSE z[j - 1])
              /\ u.node[z[j]].next = (IF j = len + 1 THEN NULL ELSE z[j + 1])
  <2>1. CASE j = 1
    <3>1. z[j] = n /\ u.node[n].prev = NULL /\ u.node[n].next = t.head
      BY <1>1, <1>4, <1>5, <1>7, <2>1
    <3>2. j = len + 1 <=> len = 0
      BY <1>1, <2>1
    <3>3. len # 0 => z[j + 1] = s[1]
      BY <1>4, <1>7, <2>1
    <3> QED
      BY <1>2, <2>1, <3>1, <3>2, <3>3
  <2>2. CASE j # 1
    <3> DEFINE i == j - 1
    <3>1. i \in 1 .. len /\ i + 1 = j /\ len # 0
      BY <1>1, <1>7, <2>2
    <3> HIDE DEF i
    <3>2. z[j] = s[i] /\ s[i] \in Nodes /\ s[i] # n
      BY <1>1, <1>7, <3>1
    <3>3. u.node[s[i]].next = (IF i = len THEN NULL ELSE s[i + 1])
      BY <1>2, <1>5, <3>1, <3>2
    <3>4. i = len <=> j = len + 1
      BY <1>1, <3>1
    <3>5. i # len => j \in 1 .. len /\ z[j + 1] = s[j]
      BY <1>1, <1>7, <3>1
    <3>6. s[i] = t.head <=> i = 1
      BY <1>2, <1>4, <3>1
    <3>7. u.node[s[i]].prev = (IF i = 1 THEN n ELSE s[i - 1])
      BY <1>2, <1>5, <3>1, <3>2, <3>6
    <3>8. j - 1 = i /\ (i # 1 => i - 1 \in 1 .. len /\ (i - 1) + 1 = i)
      BY <1>1, <3>1
    <3>9. z[i] = (IF i = 1 THEN n ELSE s[i - 1])
      BY <1>7, <3>8
    <3> QED
      BY <2>2, <3>1, <3>2, <3>3, <3>4, <3>5, <3>7, <3>8, <3>9
  <2> QED
    BY <2>1, <2>2
<1>13. Linked(u, M, z, len + 1)
  <2>1. M \subseteq LiveNodes(u)
    BY <1>1, <1>6
  <2> HIDE DEF M
  <2> QED
    BY <1>7, <1>8, <1>9, <1>10, <1>11, <1>12, <2>1 DEF Linked
<1> QED
  BY <1>5, <1>13, Zenon DEF u, M, z, WithFirst

-----------------------------------------------------------------------------
(* The operations                                                          *)

\* What holds of the table between two calls.
Sound(t) ==
    /\ TableInv(t) /\ t.fault = "none"
    /\ \E s, len : Linked(t, LiveNodes(t), s, len)

Ordered(t, s, len) == TableInv(t) /\ t.fault = "none" /\ Linked(t, LiveNodes(t), s, len)

SameData(t, u, N) ==
    \A n \in N : u.node[n].key = t.node[n].key /\ u.node[n].ptr = t.node[n].ptr

Pushed(s, len, n, last) == IF last THEN WithLast(s, len, n) ELSE WithFirst(s, len, n)

\* dqht_insert and dqht_push_front of a key that is not there: its node is at
\* the end it was pushed to, or there is no memory and nothing changes.
LEMMA PushIs ==
    ASSUME NEW t, NEW s, NEW len, Ordered(t, s, len), NEW k \in Keys, NEW v \in Values,
           NEW last \in BOOLEAN, ~Found(t, k)
    PROVE  LET r == Push(t, k, v, last)
               u == r.table
           IN  /\ SameData(t, u, LiveNodes(t))
               /\ \/ r.answer = Answer(-1, NULL, << >>) /\ Ordered(u, s, len)
                  \/ \E n \in Nodes :
                       /\ r.answer = Answer(0, NULL, << >>)
                       /\ Ordered(u, Pushed(s, len, n, last), len + 1)
                       /\ u.node[n].key = k /\ u.node[n].ptr = v
<1> DEFINE r == HtInsert(t, k, v)
           n == r.entry
           w == r.table
           x == Relinked(w, n, last)
<1>1. Linked(t, LiveNodes(t), s, len) /\ TableInv(t) /\ t.fault = "none"
  BY DEF Ordered
<1>2. /\ TableInv(w)
      /\ \/ r.result = -1 /\ SameTable(t, w)
         \/ r.result = 0 /\ r.overridden = NULL /\ n \in FreeNodes(t) /\ Added(t, w, n, k, v)
  BY <1>1, InsertKeeps
<1>3. CASE r.result = -1
  <2>1. Push(t, k, v, last) = [table |-> w, answer |-> Answer(-1, NULL, << >>)]
    BY <1>3 DEF Push
  <2>2. SameTable(t, w)
    BY <1>2, <1>3
  <2> HIDE DEF w
  <2>3. LiveNodes(w) = LiveNodes(t)
    BY <2>2, SameLive
  <2>4. Linked(w, LiveNodes(w), s, len)
    <3>1. /\ w.head = t.head /\ w.tail = t.tail
          /\ \A m \in LiveNodes(t) : /\ w.node[m].prev = t.node[m].prev
                                    /\ w.node[m].next = t.node[m].next
      BY <2>2 DEF SameTable, SameContent, LiveNodes
    <3> QED
      BY <1>1, <2>3, <3>1, LinkedSame
  <2>5. Ordered(w, s, len) /\ SameData(t, w, LiveNodes(t))
    BY <1>1, <1>2, <2>2, <2>4 DEF Ordered, SameTable, SameData, SameContent, LiveNodes
  <2> QED
    BY <2>1, <2>5
<1>4. CASE r.result = 0
  <2>1. Added(t, w, n, k, v) /\ TableInv(w) /\ r.result # -1 /\ r.result # 1 /\ r.overridden = NULL
    BY <1>2, <1>4
  <2>2. Push(t, k, v, last) =
          [table |-> IF Printed(w).fault # "none" THEN Printed(w)
                     ELSE Printed(Relinked(Printed(w), n, last)),
           answer |-> Answer(0, NULL, << >>)]
    BY <2>1 DEF Push, Replaced
  <2> HIDE DEF r, w, n
  <2>3. /\ n \in LiveNodes(w) \ LiveNodes(t) /\ LiveNodes(w) = LiveNodes(t) \cup {n}
        /\ w.node[n].prev = NULL /\ w.node[n].next = NULL /\ w.fault = "none" /\ n \in Nodes
    BY <1>1, <2>1 DEF Added
  <2>4. Linked(w, LiveNodes(t), s, len)
    <3>1. \A m \in LiveNodes(t) : /\ w.node[m].prev = t.node[m].prev
                                   /\ w.node[m].next = t.node[m].next
      BY <2>1 DEF Added, SameContent, LiveNodes
    <3> QED
      BY <1>1, <2>1, <2>3, <3>1, LinkedSame DEF Added
  <2>5. Printed(w) = w
    BY <2>4, PrintedSame
  <2>6. LinksOnly(w, x) /\ Linked(x, LiveNodes(w), Pushed(s, len, n, last), len + 1)
    <3>1. LinksOnly(w, LinkedLast(w, n)) /\ Linked(LinkedLast(w, n), LiveNodes(w), WithLast(s, len, n), len + 1)
      BY <2>1, <2>3, <2>4, LastKeeps
    <3>2. LinksOnly(w, LinkedFront(w, n)) /\ Linked(LinkedFront(w, n), LiveNodes(w), WithFirst(s, len, n), len + 1)
      BY <2>1, <2>3, <2>4, FrontKeeps
    <3> QED
      BY <3>1, <3>2, Zenon DEF Relinked, Pushed
  <2> HIDE DEF x
  <2>7. TableInv(x) /\ LiveNodes(x) = LiveNodes(w)
    BY <2>1, <2>6, LinksKeep
  <2>8. Printed(x) = x
    BY <2>6, PrintedSame
  <2>9. Push(t, k, v, last) = [table |-> x, answer |-> Answer(0, NULL, << >>)]
    BY <2>2, <2>3, <2>5, <2>8 DEF x
  <2>10. Ordered(x, Pushed(s, len, n, last), len + 1)
    BY <2>3, <2>6, <2>7 DEF Ordered, LinksOnly
  <2>11. x.node[n].key = k /\ x.node[n].ptr = v /\ SameData(t, x, LiveNodes(t))
    BY <2>1, <2>3, <2>6 DEF Added, SameContent, SameData, LinksOnly, LiveNodes
  <2> QED
    BY <2>3, <2>9, <2>10, <2>11
<1> QED
  BY <1>2, <1>3, <1>4

LEMMA PushKeeps ==
    ASSUME NEW t, Sound(t), NEW k \in Keys, NEW v \in Values, NEW last \in BOOLEAN,
           ~Found(t, k)
    PROVE  Sound(Push(t, k, v, last).table)
<1>1. PICK s, len : Ordered(t, s, len)
  BY DEF Sound, Ordered
<1>2. \E z, l : Ordered(Push(t, k, v, last).table, z, l)
  BY <1>1, PushIs
<1> QED
  BY <1>2 DEF Sound, Ordered

\* A node is taken out of the list and then out of the array, and its value
\* is what the caller gets.
LEMMA TakeIs ==
    ASSUME NEW t, NEW s, NEW len, Ordered(t, s, len), NEW i \in 1 .. len, NEW n, n = s[i]
    PROVE  LET d == Deleted(Unlinked(t, n), t.node[n].index)
           IN  /\ Ordered(d.table, CutAt(s, len, i), len - 1)
               /\ SameData(t, d.table, LiveNodes(d.table)) /\ d.value = t.node[n].ptr
               /\ LiveNodes(d.table) = LiveNodes(t) \ {n}
               /\ Unlinked(t, n).node[n].index = t.node[n].index
<1> DEFINE u == Unlinked(t, n)
           j == t.node[n].index
           d == Deleted(u, j).table
           z == CutAt(s, len, i)
<1>1. Linked(t, LiveNodes(t), s, len) /\ TableInv(t) /\ t.fault = "none" /\ n \in LiveNodes(t)
  BY DEF Ordered, Linked
<1>2. LinksOnly(t, u) /\ Linked(u, LiveNodes(t) \ {n}, z, len - 1)
  BY <1>1, UnlinkKeeps
<1> HIDE DEF u, z
<1>3. TableInv(u) /\ LiveNodes(u) = LiveNodes(t)
  BY <1>1, <1>2, LinksKeep
<1>4. u.node[n].index = j /\ u.fault = "none" /\ u.node[n].ptr = t.node[n].ptr
  BY <1>1, <1>2 DEF LinksOnly, LiveNodes
<1> HIDE DEF j
<1>6. /\ TableInv(d) /\ LiveNodes(d) = LiveNodes(t) \ {n} /\ d.fault = "none"
      /\ \A m \in Nodes \ {n} : d.node[m] = u.node[m]
      /\ d.head = u.head /\ d.tail = u.tail
      /\ Deleted(u, j).value = t.node[n].ptr
  BY <1>1, <1>3, <1>4, DeleteKeeps
<1> HIDE DEF d
<1>7. Linked(d, LiveNodes(d), z, len - 1)
  BY <1>2, <1>6, LinkedSame DEF LiveNodes
<1>8. Ordered(d, z, len - 1)
  BY <1>6, <1>7 DEF Ordered
<1>9. SameData(t, d, LiveNodes(d))
  BY <1>2, <1>6 DEF SameData, LinksOnly, LiveNodes
<1> QED
  BY <1>4, <1>6, <1>8, <1>9, Zenon DEF u, j, d, z

LEMMA TakeKeeps ==
    ASSUME NEW t, Sound(t), NEW n \in LiveNodes(t)
    PROVE  /\ Sound(Deleted(Unlinked(t, n), t.node[n].index).table)
           /\ Unlinked(t, n).node[n].index = t.node[n].index
<1>1. PICK s, len : Ordered(t, s, len)
  BY DEF Sound, Ordered
<1>2. PICK i \in 1 .. len : n = s[i]
  BY <1>1 DEF Ordered, Linked
<1>3. /\ Ordered(Deleted(Unlinked(t, n), t.node[n].index).table, CutAt(s, len, i), len - 1)
      /\ Unlinked(t, n).node[n].index = t.node[n].index
  BY <1>1, <1>2, TakeIs
<1> QED
  BY <1>3 DEF Sound, Ordered

\* dqht_remove
LEMMA RemoveKeeps ==
    ASSUME NEW t, Sound(t), NEW k \in Keys, NEW taken \in BOOLEAN
    PROVE  Sound(Remove(t, k, taken).table)
<1>1. CASE ~Found(t, k)
  BY <1>1 DEF Remove
<1>2. CASE Found(t, k)
  <2>1. HitNode(t, k) \in LiveNodes(t) /\ t.node[HitNode(t, k)].index = HitSlot(t, k)
    BY <1>2, FoundLive DEF Sound
  <2>2. Remove(t, k, taken).table = Deleted(Unlinked(t, HitNode(t, k)), HitSlot(t, k)).table
    BY <1>2 DEF Remove
  <2> QED
    BY <2>1, <2>2, TakeKeeps
<1> QED
  BY <1>1, <1>2

\* the ends of the list are nodes, or there is no node
LEMMA EndsLive ==
    ASSUME NEW t, Sound(t), NEW n \in {t.head, t.tail} PROVE n = NULL \/ n \in LiveNodes(t)
<1>1. PICK s, len : Linked(t, LiveNodes(t), s, len)
  BY DEF Sound
<1>2. len # 0 => 1 \in 1 .. len /\ len \in 1 .. len
  BY <1>1 DEF Linked
<1> QED
  BY <1>1, <1>2 DEF Linked

\* dqht_pop_front and dqht_pop_last
LEMMA PopKeeps ==
    ASSUME NEW t, Sound(t), NEW n \in {t.head, t.tail} PROVE Sound(Popped(t, n).table)
<1>1. CASE n = NULL
  BY <1>1 DEF Popped
<1>2. CASE n \in LiveNodes(t)
  <2>1. n # NULL /\ Live(t, n)
    BY <1>2, NullNode DEF LiveNodes
  <2>2. Popped(t, n).table = Deleted(Unlinked(t, n), Unlinked(t, n).node[n].index).table
    BY <2>1 DEF Popped
  <2> QED
    BY <1>2, <2>2, TakeKeeps
<1> QED
  BY <1>1, <1>2, EndsLive

\* dqht_get, dqht_get_front and dqht_get_last
LEMMA PeekKeeps ==
    ASSUME NEW t, Sound(t), NEW n, n = NULL \/ n \in LiveNodes(t)
    PROVE  Sound(Peeked(t, n).table)
BY DEF Peeked, LiveNodes

\* dqht_destroy_handled and dqht_create
LEMMA RecreateIs ==
    ASSUME NEW t, Sound(t), NEW handled \in BOOLEAN
    PROVE  Ordered(Destroyed(t, handled).table, << >>, 0)
<1> DEFINE rest == [n \in Nodes |->
                      IF \E j \in DOMAIN t.items : t.items[j] = n THEN Free ELSE t.node[n]]
           u == [Create EXCEPT !.node = rest]
<1>1. PICK s, len : Linked(t, LiveNodes(t), s, len)
  BY DEF Sound
<1>2. Chain(t) = LiveNodes(t) /\ ~Cyclic(t)
  BY <1>1, ChainIs
<1>3. Destroyed(t, handled).table = u
  BY <1>2 DEF Destroyed, LiveNodes
<1>4. rest \in [Nodes -> Node] /\ \A n \in Nodes : rest[n].key = NULL
  BY RestFree DEF Sound
<1> HIDE DEF rest
<1>5. Create \in Table(InitSize)
  BY CreateInv DEF TableInv, Create
<1>6. /\ u \in Table(InitSize) /\ u.node = rest /\ u.items = Create.items
      /\ u.count = Create.count /\ u.fault = Create.fault /\ u.head = Create.head
      /\ u.tail = Create.tail
  BY <1>4, <1>5 DEF Table
<1> HIDE DEF u
<1>7. u.count = 0 /\ u.fault = "none" /\ u.head = NULL /\ u.tail = NULL
  BY <1>6 DEF Create
<1>8. TableInv(u) /\ LiveNodes(u) = {}
  BY <1>4, <1>6, <1>7, EmptyInv
<1>9. Linked(u, {}, << >>, 0)
  BY <1>7, <1>8 DEF Linked
<1> QED
  BY <1>3, <1>7, <1>8, <1>9 DEF Ordered

LEMMA RecreateKeeps ==
    ASSUME NEW t, Sound(t), NEW handled \in BOOLEAN PROVE Sound(Destroyed(t, handled).table)
BY RecreateIs DEF Sound, Ordered

LEMMA InitSound == Init => Sound(dqht)
<1> SUFFICES ASSUME Init PROVE Sound(dqht)
  OBVIOUS
<1>1. TableInv(dqht) /\ LiveNodes(dqht) = {}
  BY CreateInv DEF Init
<1>2. dqht.head = NULL /\ dqht.tail = NULL /\ dqht.fault = "none"
  BY DEF Init, Create
<1>3. Linked(dqht, {}, << >>, 0)
  BY <1>1, <1>2 DEF Linked
<1> QED
  BY <1>1, <1>2, <1>3 DEF Sound

\* A call that leaves a sound table is the client's next state.
LEMMA ReturnKeeps ==
    ASSUME NEW r, Sound(r.table), Return(r) PROVE Sound(dqht)'
<1>1. dqht' = r.table
  BY DEF Return, Sound
<1> QED
  BY <1>1

LEMMA NextSound == FreshOnly /\ Sound(dqht) /\ [Next]_vars => Sound(dqht)'
<1> SUFFICES ASSUME FreshOnly, Sound(dqht), [Next]_vars PROVE Sound(dqht)'
  OBVIOUS
<1>1. ASSUME NEW k \in Keys, NEW v \in Values, NEW last \in BOOLEAN, PushKey(k, v, last)
      PROVE  Sound(dqht)'
  BY <1>1, PushKeeps, ReturnKeeps DEF PushKey
<1>2. ASSUME NEW k \in Keys, NEW taken \in BOOLEAN, RemoveKey(k, taken) PROVE Sound(dqht)'
  BY <1>2, RemoveKeeps, ReturnKeeps DEF RemoveKey
<1>3. ASSUME NEW last \in BOOLEAN, PopEnd(last) PROVE Sound(dqht)'
  BY <1>3, PopKeeps, ReturnKeeps DEF PopEnd, PopLast, PopFront
<1>4. ASSUME NEW k \in Keys, GetKey(k) PROVE Sound(dqht)'
  <2>1. Found(dqht, k) => HitNode(dqht, k) \in LiveNodes(dqht)
    BY FoundLive DEF Sound
  <2> QED
    BY <1>4, <2>1, PeekKeeps, ReturnKeeps DEF GetKey, Get
<1>5. ASSUME NEW last \in BOOLEAN, GetEnd(last) PROVE Sound(dqht)'
  BY <1>5, EndsLive, PeekKeeps, ReturnKeeps DEF GetEnd
<1>6. ASSUME NEW handled \in BOOLEAN, Recreate(handled) PROVE Sound(dqht)'
  BY <1>6, RecreateKeeps, ReturnKeeps DEF Recreate
<1>7. CASE UNCHANGED vars
  <2>1. dqht' = dqht
    BY <1>7 DEF vars
  <2> QED
    BY <2>1
<1> QED
  BY <1>1, <1>2, <1>3, <1>4, <1>5, <1>6, <1>7 DEF Next

LEMMA SoundAlways == FreshOnly => (Spec => []Sound(dqht))
<1> SUFFICES ASSUME FreshOnly PROVE Spec => []Sound(dqht)
  OBVIOUS
<1>1. Sound(dqht) /\ [Next]_vars => Sound(dqht)'
  BY NextSound
<1> QED
  BY <1>1, InitSound, PTL DEF Spec

\* A node's index is the slot that holds it, through any resizes: popping by
\* the index deletes the node that was unlinked.
THEOREM IndexIsExact == FreshOnly => (Spec => []IndexExact)
<1> SUFFICES ASSUME FreshOnly PROVE Spec => []IndexExact
  OBVIOUS
<1>1. Sound(dqht) => IndexExact
  BY DEF Sound, TableInv, IndexesExact, IndexExact, Stored, LiveNodes
<1> QED
  BY <1>1, SoundAlways, PTL

\* count is the number of nodes, and ht_insert keeps the array half empty.
THEOREM CountIsExact == FreshOnly => (Spec => []CountExact)
<1> SUFFICES ASSUME FreshOnly PROVE Spec => []CountExact
  OBVIOUS
<1>1. Sound(dqht) => CountExact
  BY DEF Sound, TableInv, CountExact, Stored, LiveNodes
<1> QED
  BY <1>1, SoundAlways, PTL

\* For any hash function, sizes and order of calls: the list from head to tail
\* is every stored node once, doubly linked, and no operation walks a cycle,
\* reads a freed node or deletes outside the array.
THEOREM ListIsExact == FreshOnly => (Spec => []ListExact)
<1> SUFFICES ASSUME FreshOnly PROVE Spec => []ListExact
  OBVIOUS
<1>1. Sound(dqht) => ListExact
  <2> SUFFICES ASSUME Sound(dqht) PROVE ListExact
    OBVIOUS
  <2>1. PICK s, len : Linked(dqht, LiveNodes(dqht), s, len)
    BY DEF Sound
  <2>2. ForwardExact
    BY <2>1, ChainIs DEF ForwardExact, Stored, LiveNodes
  <2>3. Mirrored
    <3>1. (dqht.head = NULL) = (dqht.tail = NULL)
      <4>1. len # 0 => 1 \in 1 .. len /\ len \in 1 .. len /\ s[1] \in Nodes /\ s[len] \in Nodes
        BY <2>1 DEF Linked, LiveNodes
      <4> QED
        BY <2>1, <4>1, NullNode DEF Linked
    <3>2. /\ dqht.head # NULL => dqht.node[dqht.head].prev = NULL
          /\ dqht.tail # NULL => dqht.node[dqht.tail].next = NULL
      BY <2>1 DEF Linked
    <3>3. ASSUME NEW n \in Stored
          PROVE  /\ dqht.node[n].next # NULL => dqht.node[dqht.node[n].next].prev = n
                 /\ dqht.node[n].prev # NULL => dqht.node[dqht.node[n].prev].next = n
      <4>1. PICK i \in 1 .. len : s[i] = n
        BY <2>1 DEF Linked, Stored, LiveNodes
      <4>2. /\ len \in Nat
            /\ \A j \in 1 .. len :
                 /\ dqht.node[s[j]].prev = (IF j = 1 THEN NULL ELSE s[j - 1])
                 /\ dqht.node[s[j]].next = (IF j = len THEN NULL ELSE s[j + 1])
        BY <2>1 DEF Linked
      <4>3. dqht.node[n].next # NULL =>
              /\ i + 1 \in 1 .. len /\ dqht.node[n].next = s[i + 1]
              /\ i + 1 # 1 /\ (i + 1) - 1 = i
        BY <4>1, <4>2
      <4>4. dqht.node[n].prev # NULL =>
              /\ i - 1 \in 1 .. len /\ dqht.node[n].prev = s[i - 1]
              /\ i - 1 # len /\ (i - 1) + 1 = i
        BY <4>1, <4>2
      <4> QED
        BY <4>1, <4>2, <4>3, <4>4
    <3> QED
      BY <3>1, <3>2, <3>3 DEF Mirrored
  <2> QED
    BY <2>2, <2>3 DEF ListExact, NoFault, Sound
<1> QED
  BY <1>1, SoundAlways, PTL

-----------------------------------------------------------------------------
(* The ordered map                                                         *)

PairIn(t, n) == <<t.node[n].key, t.node[n].ptr>>
PairsOf(t) ==
    LET list == Listed(t)
    IN  [i \in DOMAIN list |-> <<t.node[list[i]].key, t.node[list[i]].ptr>>]

Pair == (Keys \cup {NULL}) \X (Values \cup {NULL})

\* Listed reads the list the table is linked in.
LEMMA ListedIs ==
    ASSUME NEW t, NEW N, NEW s, NEW len, Linked(t, N, s, len)
    PROVE  Listed(t) = [i \in 1 .. len |-> s[i]]
<1> DEFINE w == Walk(t)
           met == {i \in 0 .. MaxNodes : w[i] # NULL}
<1>1. len \in Nat /\ len <= MaxNodes /\ MaxNodes \in Nat /\ \A j \in 1 .. len : s[j] # NULL
  <2>1. len \in Nat /\ N \subseteq Nodes /\ s \in [1 .. len -> N]
    BY DEF Linked, LiveNodes
  <2>2. len <= MaxNodes /\ MaxNodes \in Nat
    BY LengthBound, NodesAssumption
  <2> QED
    BY <2>1, <2>2, NullNode
<1>2. \A i \in 0 .. MaxNodes : w[i] = IF i < len THEN s[i + 1] ELSE NULL
  BY WalkIs
<1>3. Listed(t) = [i \in 1 .. Cardinality(met) |-> w[i - 1]]
  BY Zenon DEF Listed
<1> HIDE DEF w
<1>4. \A i \in 0 .. MaxNodes : w[i] # NULL <=> i < len
  <2> SUFFICES ASSUME NEW i \in 0 .. MaxNodes PROVE w[i] # NULL <=> i < len
    OBVIOUS
  <2>1. i < len => i + 1 \in 1 .. len
    BY <1>1
  <2> QED
    BY <1>1, <1>2, <2>1
<1>5. met = 0 .. len - 1
  BY <1>1, <1>4
<1> HIDE DEF met
<1>6. Cardinality(met) = len
  <2>1. len - 1 \in Int /\ (0 > len - 1 <=> len = 0) /\ (len - 1) - 0 + 1 = len
    BY <1>1
  <2>2. Cardinality(0 .. len - 1) = IF 0 > len - 1 THEN 0 ELSE (len - 1) - 0 + 1
    BY <2>1, FS_Interval
  <2> QED
    BY <1>5, <2>1, <2>2
<1>7. \A i \in 1 .. len : w[i - 1] = s[i]
  <2> SUFFICES ASSUME NEW i \in 1 .. len PROVE w[i - 1] = s[i]
    OBVIOUS
  <2>1. i - 1 \in 0 .. MaxNodes /\ i - 1 < len /\ (i - 1) + 1 = i
    BY <1>1
  <2> QED
    BY <1>2, <2>1
<1> QED
  BY <1>3, <1>6, <1>7

\* What the table shows of a list.
LEMMA PairsIs ==
    ASSUME NEW t, NEW s, NEW len, Ordered(t, s, len)
    PROVE  /\ len \in Nat /\ PairsOf(t) \in Seq(Pair) /\ Len(PairsOf(t)) = len
           /\ DOMAIN PairsOf(t) = 1 .. len
           /\ \A i \in 1 .. len : /\ s[i] \in LiveNodes(t) /\ s[i] \in Nodes
                                  /\ PairsOf(t)[i] = PairIn(t, s[i])
<1>1. Linked(t, LiveNodes(t), s, len) /\ TableInv(t)
  BY DEF Ordered
<1>2. len \in Nat /\ \A i \in 1 .. len : s[i] \in LiveNodes(t)
  BY <1>1 DEF Linked
<1> DEFINE list == [i \in 1 .. len |-> s[i]]
           f == [i \in 1 .. len |-> PairIn(t, s[i])]
<1>3. Listed(t) = list
  BY <1>1, ListedIs
<1>4. DOMAIN list = 1 .. len /\ \A i \in 1 .. len : list[i] = s[i]
  OBVIOUS
<1>5. PairsOf(t) = [i \in DOMAIN list |-> <<t.node[list[i]].key, t.node[list[i]].ptr>>]
  BY <1>3, Zenon DEF PairsOf
<1> HIDE DEF list
<1>6. PairsOf(t) = f
  BY <1>4, <1>5 DEF PairIn
<1>7. \A n \in Nodes : PairIn(t, n) \in Pair
  BY <1>1 DEF TableInv, Table, Node, PairIn, Pair
<1>8. \A i \in 1 .. len : s[i] \in Nodes
  BY <1>2 DEF LiveNodes
<1>9. f \in [1 .. len -> Pair]
  BY <1>7, <1>8
<1>10. DOMAIN f = 1 .. len /\ \A i \in 1 .. len : f[i] = PairIn(t, s[i])
  OBVIOUS
<1> HIDE DEF f
<1>11. f \in Seq(Pair) /\ Len(f) = len
  BY <1>2, <1>9, <1>10
<1> QED
  BY <1>2, <1>6, <1>8, <1>10, <1>11

\* Where a key is in the map.
At(P, k) == {i \in DOMAIN P : P[i][1] = k}

\* A lookup finds the one pair of its key.
LEMMA AtIs ==
    ASSUME NEW t, NEW s, NEW len, Ordered(t, s, len), NEW k \in Keys
    PROVE  /\ ~Found(t, k) => At(PairsOf(t), k) = {}
           /\ Found(t, k) => \E i \in 1 .. len : s[i] = HitNode(t, k) /\ At(PairsOf(t), k) = {i}
<1> DEFINE P == PairsOf(t)
<1>1. /\ DOMAIN P = 1 .. len /\ len \in Nat
      /\ \A i \in 1 .. len : s[i] \in LiveNodes(t) /\ P[i] = PairIn(t, s[i])
  BY PairsIs
<1> HIDE DEF P
<1>2. \A i \in 1 .. len : P[i][1] = t.node[s[i]].key
  BY <1>1 DEF PairIn
<1>3. Linked(t, LiveNodes(t), s, len) /\ TableInv(t)
  BY DEF Ordered
<1>4. CASE ~Found(t, k)
  <2>1. \A n \in LiveNodes(t) : t.node[n].key # k
    BY <1>3, <1>4, FoundLive
  <2> QED
    BY <1>1, <1>2, <1>4, <2>1 DEF At, P
<1>5. CASE Found(t, k)
  <2>1. HitNode(t, k) \in LiveNodes(t) /\ t.node[HitNode(t, k)].key = k
    BY <1>3, <1>5, FoundLive
  <2>2. PICK i \in 1 .. len : s[i] = HitNode(t, k)
    BY <1>3, <2>1 DEF Linked
  <2>3. \A j \in 1 .. len : t.node[s[j]].key = k => j = i
    BY <1>1, <1>3, <2>1, <2>2 DEF TableInv, KeysOnce, Linked
  <2>4. At(P, k) = {i}
    BY <1>1, <1>2, <2>1, <2>2, <2>3 DEF At
  <2> QED
    BY <1>5, <2>2, <2>4 DEF P
<1> QED
  BY <1>4, <1>5

-----------------------------------------------------------------------------
(* Sequences                                                               *)

\* the items of P with the one at i left out
Skip(i, j) == IF j < i THEN j ELSE j + 1

LEMMA IsAppend ==
    ASSUME NEW S, NEW P \in Seq(S), NEW Q \in Seq(S), NEW e \in S, Len(Q) = Len(P) + 1,
           \A j \in 1 .. Len(P) : Q[j] = P[j], Q[Len(P) + 1] = e
    PROVE  Q = Append(P, e)
<1> DEFINE A == Append(P, e)
<1>1. /\ A \in Seq(S) /\ Len(A) = Len(P) + 1 /\ A[Len(P) + 1] = e
      /\ \A j \in 1 .. Len(P) : A[j] = P[j]
  BY AppendProperties
<1> HIDE DEF A
<1>2. \A j \in 1 .. Len(Q) : Q[j] = A[j]
  <2>1. Len(P) \in Nat
    BY LenProperties
  <2> QED
    BY <1>1, <2>1
<1> QED
  BY <1>1, <1>2, SeqEqual DEF A

LEMMA IsCons ==
    ASSUME NEW S, NEW P \in Seq(S), NEW Q \in Seq(S), NEW e \in S, Len(Q) = Len(P) + 1,
           \A j \in 1 .. Len(P) : Q[j + 1] = P[j], Q[1] = e
    PROVE  Q = <<e>> \o P
<1> DEFINE E == <<e>>
           A == E \o P
<1>1. E \in Seq(S) /\ Len(E) = 1 /\ E[1] = e
  OBVIOUS
<1> HIDE DEF E
<1>2. /\ A \in Seq(S) /\ Len(A) = 1 + Len(P)
      /\ \A j \in 1 .. 1 + Len(P) : A[j] = IF j <= 1 THEN E[j] ELSE P[j - 1]
  <2>1. /\ E \o P \in Seq(S) /\ Len(E \o P) = Len(E) + Len(P)
        /\ \A j \in 1 .. Len(E) + Len(P) :
             (E \o P)[j] = IF j <= Len(E) THEN E[j] ELSE P[j - Len(E)]
    BY <1>1, ConcatProperties, Zenon
  <2> HIDE DEF A
  <2> QED
    BY <1>1, <2>1, Zenon DEF A
<1> HIDE DEF A
<1>3. Len(P) \in Nat
  BY LenProperties
<1>4. ASSUME NEW j \in 1 .. Len(Q) PROVE Q[j] = A[j]
  <2>1. j \in 1 .. 1 + Len(P)
    BY <1>3
  <2>2. CASE j = 1
    BY <1>1, <1>2, <2>1, <2>2
  <2>3. CASE j # 1
    <3>1. j - 1 \in 1 .. Len(P) /\ (j - 1) + 1 = j /\ ~(j <= 1)
      BY <1>3, <2>3
    <3>2. A[j] = P[j - 1]
      BY <1>2, <2>1, <3>1
    <3>3. Q[(j - 1) + 1] = P[j - 1]
      BY <3>1
    <3> QED
      BY <3>1, <3>2, <3>3
  <2> QED
    BY <2>2, <2>3
<1>5. Len(Q) = Len(A)
  BY <1>2, <1>3
<1> QED
  BY <1>2, <1>4, <1>5, SeqEqual DEF A, E

LEMMA IsRemoved ==
    ASSUME NEW S, NEW P \in Seq(S), NEW Q \in Seq(S), NEW i \in 1 .. Len(P),
           Len(Q) = Len(P) - 1, \A j \in 1 .. Len(P) - 1 : Q[j] = P[Skip(i, j)]
    PROVE  Q = SubSeq(P, 1, i - 1) \o SubSeq(P, i + 1, Len(P))
<1> DEFINE len == Len(P)
           F == SubSeq(P, 1, i - 1)
           G == SubSeq(P, i + 1, len)
           A == F \o G
<1>1. len \in Nat /\ \A j \in 1 .. len : P[j] \in S
  BY LenProperties, ElementOfSeq
<1> HIDE DEF len
<1>2. F \in Seq(S) /\ Len(F) = i - 1 /\ \A j \in 1 .. i - 1 : F[j] = P[j]
  <2>1. i - 1 \in Int /\ 1 \in Int /\ \A j \in 1 .. i - 1 : j \in 1 .. len
    BY <1>1 DEF len
  <2>2. \A j \in 1 .. i - 1 : P[j] \in S
    BY <1>1, <2>1
  <2>3. /\ F \in Seq(S) /\ Len(F) = IF 1 <= i - 1 THEN ((i - 1) - 1) + 1 ELSE 0
        /\ \A j \in 1 .. ((i - 1) - 1) + 1 : F[j] = P[(1 + j) - 1]
    BY <2>1, <2>2, SubSeqProperties
  <2> HIDE DEF F
  <2>4. ((i - 1) - 1) + 1 = i - 1 /\ \A j \in 1 .. i - 1 : (1 + j) - 1 = j
    BY <1>1
  <2>5. \A j \in 1 .. i - 1 : F[j] = P[j]
    BY <2>3, <2>4
  <2> QED
    BY <1>1, <2>3, <2>4, <2>5
<1>3. G \in Seq(S) /\ Len(G) = len - i /\ \A j \in 1 .. len - i : G[j] = P[i + j]
  <2>1. i + 1 \in Int /\ len \in Int /\ \A j \in i + 1 .. len : j \in 1 .. len
    BY <1>1
  <2>2. \A j \in i + 1 .. len : P[j] \in S
    BY <1>1, <2>1
  <2>3. /\ G \in Seq(S) /\ Len(G) = IF i + 1 <= len THEN (len - (i + 1)) + 1 ELSE 0
        /\ \A j \in 1 .. (len - (i + 1)) + 1 : G[j] = P[((i + 1) + j) - 1]
    BY <2>1, <2>2, SubSeqProperties
  <2> HIDE DEF G
  <2>4. /\ (len - (i + 1)) + 1 = len - i /\ (~(i + 1 <= len) => len - i = 0)
        /\ \A j \in 1 .. len - i : ((i + 1) + j) - 1 = i + j
    BY <1>1 DEF len
  <2>5. \A j \in 1 .. len - i : G[j] = P[i + j]
    BY <2>3, <2>4
  <2> QED
    BY <2>3, <2>4, <2>5
<1> HIDE DEF F, G
<1>4. /\ A \in Seq(S) /\ Len(A) = (i - 1) + (len - i)
      /\ \A j \in 1 .. (i - 1) + (len - i) : A[j] = IF j <= i - 1 THEN F[j] ELSE G[j - (i - 1)]
  <2>1. /\ F \o G \in Seq(S) /\ Len(F \o G) = Len(F) + Len(G)
        /\ \A j \in 1 .. Len(F) + Len(G) :
             (F \o G)[j] = IF j <= Len(F) THEN F[j] ELSE G[j - Len(F)]
    BY <1>2, <1>3, ConcatProperties, Zenon
  <2> HIDE DEF A
  <2> QED
    BY <1>2, <1>3, <2>1, Zenon DEF A
<1> HIDE DEF A
<1>5. (i - 1) + (len - i) = len - 1
  BY <1>1
<1>6. ASSUME NEW j \in 1 .. len - 1 PROVE A[j] = P[Skip(i, j)]
  <2>1. A[j] = IF j <= i - 1 THEN F[j] ELSE G[j - (i - 1)]
    BY <1>4, <1>5
  <2>2. CASE j < i
    <3>1. j <= i - 1 /\ j \in 1 .. i - 1
      BY <1>1, <2>2
    <3> QED
      BY <1>2, <2>1, <2>2, <3>1 DEF Skip
  <2>3. CASE ~(j < i)
    <3>1. ~(j <= i - 1) /\ j - (i - 1) \in 1 .. len - i /\ i + (j - (i - 1)) = j + 1
      BY <1>1, <2>3
    <3>2. G[j - (i - 1)] = P[j + 1]
      BY <1>3, <3>1
    <3> QED
      BY <2>1, <2>3, <3>1, <3>2 DEF Skip
  <2> QED
    BY <2>2, <2>3
<1>7. Len(Q) = Len(A) /\ Len(Q) = len - 1
  BY <1>4, <1>5 DEF len
<1>8. \A j \in 1 .. Len(Q) : Q[j] = A[j]
  BY <1>6, <1>7 DEF len
<1> QED
  BY <1>4, <1>7, <1>8, SeqEqual DEF A, F, G, len

LEMMA IsTail ==
    ASSUME NEW S, NEW P \in Seq(S), P # << >>, NEW Q \in Seq(S), Len(Q) = Len(P) - 1,
           \A j \in 1 .. Len(P) - 1 : Q[j] = P[j + 1]
    PROVE  Q = Tail(P)
<1>1. Tail(P) \in Seq(S) /\ Len(Tail(P)) = Len(P) - 1 /\ \A i \in 1 .. Len(Tail(P)) : Tail(P)[i] = P[i + 1]
  BY HeadTailProperties
<1> QED
  BY <1>1, SeqEqual

LEMMA IsFront ==
    ASSUME NEW S, NEW P \in Seq(S), P # << >>, NEW Q \in Seq(S), Len(Q) = Len(P) - 1,
           \A j \in 1 .. Len(P) - 1 : Q[j] = P[j]
    PROVE  Q = SubSeq(P, 1, Len(P) - 1)
<1> DEFINE n == Len(P) - 1
           F == SubSeq(P, 1, n)
<1>1. Len(P) \in Nat /\ Len(P) # 0 /\ \A j \in 1 .. Len(P) : P[j] \in S
  BY EmptySeq, LenProperties, ElementOfSeq
<1>2. n \in Nat /\ n \in Int /\ 1 \in Int /\ \A j \in 1 .. n : P[j] \in S
  BY <1>1
<1> HIDE DEF n
<1>3. /\ F \in Seq(S) /\ Len(F) = IF 1 <= n THEN (n - 1) + 1 ELSE 0
      /\ \A j \in 1 .. (n - 1) + 1 : F[j] = P[(1 + j) - 1]
  BY <1>2, SubSeqProperties
<1> HIDE DEF F
<1>4. (n - 1) + 1 = n /\ (~(1 <= n) => n = 0) /\ \A j \in 1 .. n : (1 + j) - 1 = j
  BY <1>2
<1>5. Len(F) = n /\ \A j \in 1 .. n : F[j] = P[j]
  BY <1>3, <1>4
<1>6. Len(Q) = n /\ \A j \in 1 .. n : Q[j] = P[j]
  BY DEF n
<1> QED
  BY <1>3, <1>5, <1>6, SeqEqual DEF F, n

-----------------------------------------------------------------------------
(* The operations on the map                                               *)

LEMMA SamePair ==
    ASSUME NEW t, NEW u, NEW N, SameData(t, u, N), NEW n \in N
    PROVE  PairIn(u, n) = PairIn(t, n)
BY DEF SameData, PairIn

\* A refused push: the table may have been resized, the map is what it was.
LEMMA SamePairs ==
    ASSUME NEW t, NEW u, NEW s, NEW len, Ordered(t, s, len), Ordered(u, s, len),
           SameData(t, u, LiveNodes(t))
    PROVE  PairsOf(u) = PairsOf(t)
<1>1. /\ PairsOf(t) \in Seq(Pair) /\ Len(PairsOf(t)) = len
      /\ \A i \in 1 .. len : s[i] \in LiveNodes(t) /\ PairsOf(t)[i] = PairIn(t, s[i])
  BY PairsIs
<1>2. /\ PairsOf(u) \in Seq(Pair) /\ Len(PairsOf(u)) = len
      /\ \A i \in 1 .. len : PairsOf(u)[i] = PairIn(u, s[i])
  BY PairsIs
<1>3. \A i \in 1 .. len : PairsOf(u)[i] = PairsOf(t)[i]
  BY <1>1, <1>2, SamePair
<1> QED
  BY <1>1, <1>2, <1>3, SeqEqual

LEMMA LastPairs ==
    ASSUME NEW t, NEW u, NEW s, NEW len, NEW n \in Nodes, NEW k, NEW v, Ordered(t, s, len),
           Ordered(u, WithLast(s, len, n), len + 1), SameData(t, u, LiveNodes(t)),
           u.node[n].key = k, u.node[n].ptr = v
    PROVE  PairsOf(u) = Append(PairsOf(t), <<k, v>>)
<1> DEFINE P == PairsOf(t)
           Q == PairsOf(u)
           z == WithLast(s, len, n)
<1>1. /\ P \in Seq(Pair) /\ Len(P) = len /\ len \in Nat
      /\ \A i \in 1 .. len : s[i] \in LiveNodes(t) /\ P[i] = PairIn(t, s[i])
  BY PairsIs
<1>2. /\ Q \in Seq(Pair) /\ Len(Q) = len + 1
      /\ \A i \in 1 .. len + 1 : Q[i] = PairIn(u, z[i])
  BY PairsIs
<1>3. z[len + 1] = n /\ \A i \in 1 .. len : i \in 1 .. len + 1 /\ z[i] = s[i]
  BY <1>1 DEF WithLast
<1>4. len + 1 \in 1 .. len + 1
  BY <1>1
<1> HIDE DEF P, Q, z
<1>5. Q[len + 1] = <<k, v>>
  BY <1>2, <1>3, <1>4 DEF PairIn
<1>6. \A i \in 1 .. len : Q[i] = P[i]
  BY <1>1, <1>2, <1>3, SamePair
<1>7. <<k, v>> \in Pair
  BY <1>2, <1>4, <1>5, ElementOfSeq
<1>8. Q = Append(P, <<k, v>>)
  BY <1>1, <1>2, <1>5, <1>6, <1>7, IsAppend
<1> QED
  BY <1>8 DEF P, Q

LEMMA FirstPairs ==
    ASSUME NEW t, NEW u, NEW s, NEW len, NEW n \in Nodes, NEW k, NEW v, Ordered(t, s, len),
           Ordered(u, WithFirst(s, len, n), len + 1), SameData(t, u, LiveNodes(t)),
           u.node[n].key = k, u.node[n].ptr = v
    PROVE  PairsOf(u) = <<<<k, v>>>> \o PairsOf(t)
<1> DEFINE P == PairsOf(t)
           Q == PairsOf(u)
           z == WithFirst(s, len, n)
<1>1. /\ P \in Seq(Pair) /\ Len(P) = len /\ len \in Nat
      /\ \A i \in 1 .. len : s[i] \in LiveNodes(t) /\ P[i] = PairIn(t, s[i])
  BY PairsIs
<1>2. /\ Q \in Seq(Pair) /\ Len(Q) = len + 1
      /\ \A i \in 1 .. len + 1 : Q[i] = PairIn(u, z[i])
  BY PairsIs
<1>3. z[1] = n /\ \A i \in 1 .. len : i + 1 \in 1 .. len + 1 /\ z[i + 1] = s[i]
  <2>1. /\ 1 \in 1 .. len + 1
        /\ \A i \in 1 .. len : i + 1 \in 1 .. len + 1 /\ i + 1 # 1 /\ (i + 1) - 1 = i
    BY <1>1
  <2> QED
    BY <2>1 DEF WithFirst
<1>4. 1 \in 1 .. len + 1
  BY <1>1
<1> HIDE DEF P, Q, z
<1>5. Q[1] = <<k, v>>
  BY <1>2, <1>3, <1>4 DEF PairIn
<1>6. \A i \in 1 .. len : Q[i + 1] = P[i]
  BY <1>1, <1>2, <1>3, SamePair
<1>7. <<k, v>> \in Pair
  BY <1>2, <1>4, <1>5, ElementOfSeq
<1>8. Q = <<<<k, v>>>> \o P
  <2> DEFINE e == <<k, v>>
  <2>1. e \in Pair /\ Q[1] = e
    BY <1>5, <1>7
  <2> HIDE DEF e
  <2>2. Q = <<e>> \o P
    BY <1>1, <1>2, <1>6, <2>1, IsCons
  <2> QED
    BY <2>2, Zenon DEF e
<1> QED
  BY <1>8 DEF P, Q

\* A pair is taken out of the map, wherever it is.
LEMMA CutPairs ==
    ASSUME NEW t, NEW u, NEW s, NEW len, NEW i \in 1 .. len, Ordered(t, s, len),
           Ordered(u, CutAt(s, len, i), len - 1), SameData(t, u, LiveNodes(u))
    PROVE  /\ PairsOf(t) \in Seq(Pair) /\ PairsOf(u) \in Seq(Pair)
           /\ len \in Nat /\ Len(PairsOf(t)) = len /\ Len(PairsOf(u)) = len - 1
           /\ \A j \in 1 .. len - 1 : PairsOf(u)[j] = PairsOf(t)[Skip(i, j)]
<1> DEFINE P == PairsOf(t)
           Q == PairsOf(u)
           z == CutAt(s, len, i)
<1>1. /\ P \in Seq(Pair) /\ Len(P) = len /\ len \in Nat
      /\ \A j \in 1 .. len : P[j] = PairIn(t, s[j])
  BY PairsIs
<1>2. /\ Q \in Seq(Pair) /\ Len(Q) = len - 1
      /\ \A j \in 1 .. len - 1 : z[j] \in LiveNodes(u) /\ Q[j] = PairIn(u, z[j])
  BY PairsIs
<1>3. \A j \in 1 .. len - 1 : Skip(i, j) \in 1 .. len /\ z[j] = s[Skip(i, j)]
  BY <1>1 DEF CutAt, Skip
<1> HIDE DEF P, Q, z
<1>4. ASSUME NEW j \in 1 .. len - 1 PROVE Q[j] = P[Skip(i, j)]
  <2>1. z[j] \in LiveNodes(u) /\ Q[j] = PairIn(u, z[j])
    BY <1>2
  <2>2. P[Skip(i, j)] = PairIn(t, z[j])
    BY <1>1, <1>3
  <2> QED
    BY <2>1, <2>2, SamePair
<1> QED
  BY <1>1, <1>2, <1>4 DEF P, Q

\* Both ends of the map are those of the list.
LEMMA EndPairs ==
    ASSUME NEW t, NEW s, NEW len, Ordered(t, s, len)
    PROVE  /\ PairsOf(t) = << >> <=> len = 0
           /\ len = 0 => t.head = NULL /\ t.tail = NULL
           /\ len # 0 => /\ 1 \in 1 .. len /\ len \in 1 .. len
                         /\ t.head = s[1] /\ t.tail = s[len]
                         /\ t.head \in LiveNodes(t) /\ t.tail \in LiveNodes(t)
                         /\ t.head # NULL /\ t.tail # NULL
                         /\ Head(PairsOf(t)) = PairIn(t, t.head)
                         /\ PairsOf(t)[Len(PairsOf(t))] = PairIn(t, t.tail)
<1> DEFINE P == PairsOf(t)
<1>1. /\ P \in Seq(Pair) /\ Len(P) = len /\ len \in Nat
      /\ \A j \in 1 .. len : s[j] \in LiveNodes(t) /\ s[j] \in Nodes /\ P[j] = PairIn(t, s[j])
  BY PairsIs
<1>2. t.head = (IF len = 0 THEN NULL ELSE s[1]) /\ t.tail = (IF len = 0 THEN NULL ELSE s[len])
  BY DEF Ordered, Linked
<1>3. len # 0 => 1 \in 1 .. len /\ len \in 1 .. len
  BY <1>1
<1> HIDE DEF P
<1>4. P = << >> <=> len = 0
  BY <1>1, EmptySeq
<1>5. P # << >> => Head(P) = P[1]
  BY <1>1
<1> QED
  BY <1>1, <1>2, <1>3, <1>4, <1>5, NullNode DEF P

-----------------------------------------------------------------------------
(* Each call is a step of the map                                          *)

\* A call that ends answers, and leaves the table it made.
LEMMA Returned ==
    ASSUME NEW r, r.table.fault = "none", Return(r)
    PROVE  /\ dqht' = r.table /\ answer' = r.answer
           /\ Pairs = PairsOf(dqht) /\ Pairs' = PairsOf(r.table)
<1>1. dqht' = r.table /\ answer' = r.answer
  BY DEF Return
<1>2. Pairs = PairsOf(dqht) /\ Pairs' = PairsOf(dqht')
  BY DEF Pairs, PairsOf
<1> QED
  BY <1>1, <1>2

LEMMA PushStep ==
    ASSUME FreshOnly, NEW s, NEW len, Ordered(dqht, s, len), NEW k \in Keys, NEW v \in Values,
           NEW last \in BOOLEAN, PushKey(k, v, last)
    PROVE  Map!Next
<1> DEFINE r == Push(dqht, k, v, last)
           u == r.table
<1>1. ~Found(dqht, k) /\ Return(r)
  BY DEF PushKey
<1>2. /\ SameData(dqht, u, LiveNodes(dqht))
      /\ \/ r.answer = Answer(-1, NULL, << >>) /\ Ordered(u, s, len)
         \/ \E n \in Nodes :
              /\ r.answer = Answer(0, NULL, << >>)
              /\ Ordered(u, Pushed(s, len, n, last), len + 1)
              /\ u.node[n].key = k /\ u.node[n].ptr = v
  BY <1>1, PushIs
<1> HIDE DEF r
<1>3. u.fault = "none"
  BY <1>2 DEF Ordered
<1>4. dqht' = u /\ answer' = r.answer /\ Pairs = PairsOf(dqht) /\ Pairs' = PairsOf(u)
  BY <1>1, <1>3, Returned
<1>5. CASE r.answer = Answer(-1, NULL, << >>) /\ Ordered(u, s, len)
  <2>1. PairsOf(u) = PairsOf(dqht)
    BY <1>2, <1>5, SamePairs
  <2>2. Map!Refuse
    BY <1>4, <1>5, <2>1, Zenon DEF Map!Refuse, Map!Reply, Answer
  <2> QED
    BY <2>2 DEF Map!Next
<1>6. ASSUME NEW n \in Nodes, r.answer = Answer(0, NULL, << >>),
             Ordered(u, Pushed(s, len, n, last), len + 1), u.node[n].key = k, u.node[n].ptr = v
      PROVE  Map!Next
  <2>1. At(PairsOf(dqht), k) = {}
    BY <1>1, AtIs
  <2>2. Map!With(k) = {}
    BY <1>4, <2>1, Zenon DEF Map!With, At
  <2>3. Map!Without(k) = Pairs /\ Map!Old(k) = << >>
    BY <2>2, Zenon DEF Map!Without, Map!Old
  <2>4. Pairs' = IF last THEN Append(Pairs, <<k, v>>) ELSE <<<<k, v>>>> \o Pairs
    <3>1. CASE last
      <4>1. Ordered(u, WithLast(s, len, n), len + 1)
        BY <1>6, <3>1 DEF Pushed
      <4>2. PairsOf(u) = Append(PairsOf(dqht), <<k, v>>)
        BY <1>2, <1>6, <4>1, LastPairs
      <4> QED
        BY <1>4, <3>1, <4>2
    <3>2. CASE ~last
      <4>1. Ordered(u, WithFirst(s, len, n), len + 1)
        BY <1>6, <3>2 DEF Pushed
      <4>2. PairsOf(u) = <<<<k, v>>>> \o PairsOf(dqht)
        BY <1>2, <1>6, <4>1, FirstPairs
      <4> QED
        BY <1>4, <3>2, <4>2
    <3> QED
      BY <3>1, <3>2
  <2>5. Map!Reply(0, NULL, Map!Old(k))
    BY <1>4, <1>6, <2>3, Zenon DEF Map!Reply, Answer
  <2>6. Map!Push(k, v, last)
    BY <2>3, <2>4, <2>5, Zenon DEF Map!Push
  <2> QED
    BY <2>6 DEF Map!Next
<1> QED
  BY <1>2, <1>5, <1>6

\* What the map says of a key that is in the table.
LEMMA HitIs ==
    ASSUME NEW s, NEW len, Ordered(dqht, s, len), NEW k \in Keys, Pairs = PairsOf(dqht),
           Found(dqht, k)
    PROVE  \E i \in 1 .. len :
             /\ s[i] = HitNode(dqht, k) /\ Map!With(k) # {}
             /\ Map!Without(k) = SubSeq(Pairs, 1, i - 1) \o SubSeq(Pairs, i + 1, Len(Pairs))
             /\ Map!Old(k) = <<dqht.node[HitNode(dqht, k)].ptr>>
<1>1. PICK i \in 1 .. len : s[i] = HitNode(dqht, k) /\ At(PairsOf(dqht), k) = {i}
  BY AtIs
<1>2. Map!With(k) = {i}
  BY <1>1, Zenon DEF Map!With, At
<1>3. Map!Position(k) = i /\ Map!With(k) # {}
  BY <1>2 DEF Map!Position
<1>4. Pairs[i] = PairIn(dqht, HitNode(dqht, k))
  BY <1>1, PairsIs
<1>5. Map!Without(k) = SubSeq(Pairs, 1, i - 1) \o SubSeq(Pairs, i + 1, Len(Pairs))
  BY <1>3, Zenon DEF Map!Without, Map!RemoveAt
<1>6. Map!Old(k) = <<dqht.node[HitNode(dqht, k)].ptr>>
  BY <1>3, <1>4 DEF Map!Old, PairIn
<1> QED
  BY <1>1, <1>3, <1>5, <1>6

LEMMA RemoveStep ==
    ASSUME NEW s, NEW len, Ordered(dqht, s, len), NEW k \in Keys, NEW taken \in BOOLEAN,
           RemoveKey(k, taken)
    PROVE  Map!Next
<1> DEFINE r == Remove(dqht, k, taken)
<1>1. Return(r)
  BY DEF RemoveKey
<1>2. CASE ~Found(dqht, k)
  <2>1. r = [table |-> dqht, answer |-> Answer(1, NULL, << >>)]
    BY <1>2 DEF Remove
  <2> HIDE DEF r
  <2>2. answer' = Answer(1, NULL, << >>) /\ Pairs = PairsOf(dqht) /\ Pairs' = Pairs
    BY <1>1, <2>1, Returned DEF Ordered
  <2>3. Map!With(k) = {}
    <3>1. At(PairsOf(dqht), k) = {}
      BY <1>2, AtIs
    <3> QED
      BY <2>2, <3>1, Zenon DEF Map!With, At
  <2>4. Map!Without(k) = Pairs
    BY <2>3 DEF Map!Without
  <2>5. Map!RemoveKey(k, taken)
    BY <2>2, <2>3, <2>4, Zenon DEF Map!RemoveKey, Map!Reply, Answer
  <2> QED
    BY <2>5 DEF Map!Next
<1>3. CASE Found(dqht, k)
  <2> DEFINE n == HitNode(dqht, k)
             d == Deleted(Unlinked(dqht, n), HitSlot(dqht, k))
             reply == IF taken THEN Answer(0, d.value, << >>) ELSE Answer(0, NULL, <<d.value>>)
  <2>1. r = [table |-> d.table, answer |-> reply]
    BY <1>3 DEF Remove
  <2>2. HitSlot(dqht, k) = dqht.node[n].index
    BY <1>3, FoundLive DEF Ordered
  <2>3. Pairs = PairsOf(dqht)
    BY DEF Pairs, PairsOf
  <2>4. PICK i \in 1 .. len :
             /\ s[i] = n /\ Map!With(k) # {}
             /\ Map!Without(k) = SubSeq(Pairs, 1, i - 1) \o SubSeq(Pairs, i + 1, Len(Pairs))
             /\ Map!Old(k) = <<dqht.node[n].ptr>>
    BY <1>3, <2>3, HitIs
  <2> HIDE DEF n
  <2>5. /\ Ordered(d.table, CutAt(s, len, i), len - 1)
        /\ SameData(dqht, d.table, LiveNodes(d.table)) /\ d.value = dqht.node[n].ptr
    BY <2>2, <2>4, TakeIs
  <2> HIDE DEF d, r
  <2>6. answer' = reply /\ Pairs' = PairsOf(d.table)
    <3>1. d.table.fault = "none" /\ r.table = d.table /\ r.answer = reply
      BY <2>1, <2>5 DEF Ordered
    <3> QED
      BY <1>1, <3>1, Returned
  <2>7. Pairs' = Map!Without(k)
    <3>1. /\ PairsOf(dqht) \in Seq(Pair) /\ PairsOf(d.table) \in Seq(Pair)
          /\ len \in Nat /\ Len(PairsOf(dqht)) = len /\ Len(PairsOf(d.table)) = len - 1
          /\ \A j \in 1 .. len - 1 : PairsOf(d.table)[j] = PairsOf(dqht)[Skip(i, j)]
      BY <2>5, CutPairs
    <3>2. PairsOf(d.table) = SubSeq(PairsOf(dqht), 1, i - 1)
                               \o SubSeq(PairsOf(dqht), i + 1, Len(PairsOf(dqht)))
      BY <3>1, IsRemoved
    <3> QED
      BY <2>3, <2>4, <2>6, <3>2, Zenon
  <2>8. Map!ValueOf(Map!Old(k)) = d.value
    BY <2>4, <2>5 DEF Map!ValueOf
  <2>9. IF taken THEN Map!Reply(0, Map!ValueOf(Map!Old(k)), << >>) ELSE Map!Reply(0, NULL, Map!Old(k))
    BY <2>4, <2>5, <2>6, <2>8, Zenon DEF Map!Reply, Answer
  <2>10. Map!RemoveKey(k, taken)
    BY <2>4, <2>7, <2>9, Zenon DEF Map!RemoveKey
  <2> QED
    BY <2>10 DEF Map!Next
<1> QED
  BY <1>2, <1>3

\* dqht_pop_front and dqht_pop_last
LEMMA PopStep ==
    ASSUME NEW s, NEW len, Ordered(dqht, s, len), NEW last \in BOOLEAN, PopEnd(last)
    PROVE  Map!Next
<1> DEFINE n == IF last THEN dqht.tail ELSE dqht.head
           r == Popped(dqht, n)
<1>1. Return(r)
  BY DEF PopEnd, PopLast, PopFront
<1>2. Pairs = PairsOf(dqht)
  BY DEF Pairs, PairsOf
<1>3. CASE len = 0
  <2>1. n = NULL /\ PairsOf(dqht) = << >>
    BY <1>3, EndPairs
  <2> HIDE DEF n
  <2>2. r = [table |-> dqht, answer |-> Answer(0, NULL, << >>)]
    BY <2>1 DEF Popped
  <2> HIDE DEF r
  <2>3. answer' = Answer(0, NULL, << >>) /\ Pairs' = Pairs
    BY <1>1, <1>2, <2>2, Returned DEF Ordered
  <2>4. Map!Pop(last)
    BY <1>2, <2>1, <2>3, Zenon DEF Map!Pop, Map!Reply, Answer
  <2> QED
    BY <2>4 DEF Map!Next
<1>4. CASE len # 0
  <2> DEFINE i == IF last THEN len ELSE 1
             d == Deleted(Unlinked(dqht, n), dqht.node[n].index)
  <2>1. /\ i \in 1 .. len /\ n = s[i] /\ n # NULL /\ n \in LiveNodes(dqht)
        /\ PairsOf(dqht) # << >>
        /\ last => PairsOf(dqht)[Len(PairsOf(dqht))] = PairIn(dqht, n)
        /\ ~last => Head(PairsOf(dqht)) = PairIn(dqht, n)
    BY <1>4, EndPairs
  <2>2. i = IF last THEN len ELSE 1
    OBVIOUS
  <2> HIDE DEF n, i
  <2>3. /\ Ordered(d.table, CutAt(s, len, i), len - 1)
        /\ SameData(dqht, d.table, LiveNodes(d.table)) /\ d.value = dqht.node[n].ptr
        /\ Unlinked(dqht, n).node[n].index = dqht.node[n].index
    BY <2>1, TakeIs
  <2>4. r = [table |-> d.table, answer |-> Answer(0, d.value, << >>)]
    <3>1. Live(dqht, n)
      BY <2>1 DEF LiveNodes
    <3>2. r = [table |-> Deleted(Unlinked(dqht, n), Unlinked(dqht, n).node[n].index).table,
               answer |-> Answer(0, Deleted(Unlinked(dqht, n), Unlinked(dqht, n).node[n].index).value,
                                 << >>)]
      BY <2>1, <3>1, Zenon DEF Popped
    <3> QED
      BY <2>3, <3>2, Zenon
  <2> HIDE DEF d, r
  <2>5. answer' = Answer(0, d.value, << >>) /\ Pairs' = PairsOf(d.table)
    <3>1. d.table.fault = "none" /\ r.table = d.table /\ r.answer = Answer(0, d.value, << >>)
      BY <2>3, <2>4 DEF Ordered
    <3> QED
      BY <1>1, <3>1, Returned
  <2>6. /\ PairsOf(dqht) \in Seq(Pair) /\ PairsOf(d.table) \in Seq(Pair)
        /\ len \in Nat /\ Len(PairsOf(dqht)) = len /\ Len(PairsOf(d.table)) = len - 1
        /\ \A j \in 1 .. len - 1 : PairsOf(d.table)[j] = PairsOf(dqht)[Skip(i, j)]
    BY <2>1, <2>3, CutPairs
  <2>7. PairIn(dqht, n)[2] = d.value
    BY <2>3 DEF PairIn
  <2>8. CASE last
    <3>1. \A j \in 1 .. len - 1 : Skip(i, j) = j
      BY <2>2, <2>6, <2>8 DEF Skip
    <3>2. \A j \in 1 .. len - 1 : PairsOf(d.table)[j] = PairsOf(dqht)[j]
      BY <2>6, <3>1
    <3>3. PairsOf(d.table) = SubSeq(PairsOf(dqht), 1, Len(PairsOf(dqht)) - 1)
      BY <2>1, <2>6, <3>2, IsFront
    <3>4. Pairs' = Map!Front(Pairs) /\ Map!Last(Pairs)[2] = d.value
      BY <1>2, <2>1, <2>5, <2>7, <2>8, <3>3, Zenon DEF Map!Front, Map!Last
    <3>5. Map!Pop(last)
      BY <1>2, <2>1, <2>5, <2>8, <3>4, Zenon DEF Map!Pop, Map!Reply, Answer
    <3> QED
      BY <3>5 DEF Map!Next
  <2>9. CASE ~last
    <3>1. \A j \in 1 .. len - 1 : Skip(i, j) = j + 1
      BY <2>2, <2>6, <2>9 DEF Skip
    <3>2. \A j \in 1 .. len - 1 : PairsOf(d.table)[j] = PairsOf(dqht)[j + 1]
      BY <2>6, <3>1
    <3>3. PairsOf(d.table) = Tail(PairsOf(dqht))
      BY <2>1, <2>6, <3>2, IsTail
    <3>4. Pairs' = Tail(Pairs) /\ Head(Pairs)[2] = d.value
      BY <1>2, <2>1, <2>5, <2>7, <2>9, <3>3, Zenon
    <3>5. Map!Pop(last)
      BY <1>2, <2>1, <2>5, <2>9, <3>4, Zenon DEF Map!Pop, Map!Reply, Answer
    <3> QED
      BY <3>5 DEF Map!Next
  <2> QED
    BY <2>8, <2>9
<1> QED
  BY <1>3, <1>4, PairsIs

\* reading a node that is there, or none
LEMMA PeekedIs ==
    ASSUME NEW t, NEW n, n = NULL \/ n \in LiveNodes(t)
    PROVE  Peeked(t, n) = [table |-> t,
                           answer |-> Answer(0, IF n = NULL THEN NULL ELSE t.node[n].ptr, << >>)]
BY DEF Peeked, LiveNodes

LEMMA PeekReturned ==
    ASSUME NEW s, NEW len, Ordered(dqht, s, len), NEW n, n = NULL \/ n \in LiveNodes(dqht),
           Return(Peeked(dqht, n))
    PROVE  /\ answer' = Answer(0, IF n = NULL THEN NULL ELSE dqht.node[n].ptr, << >>)
           /\ Pairs = PairsOf(dqht) /\ Pairs' = Pairs
<1> DEFINE r == Peeked(dqht, n)
           a == Answer(0, IF n = NULL THEN NULL ELSE dqht.node[n].ptr, << >>)
<1>1. r = [table |-> dqht, answer |-> a]
  BY PeekedIs
<1> HIDE DEF a
<1>2. r.table = dqht /\ r.answer = a /\ dqht.fault = "none" /\ Return(r)
  BY <1>1 DEF Ordered
<1> HIDE DEF r
<1> QED
  BY <1>2, Returned DEF a

\* dqht_get
LEMMA GetStep ==
    ASSUME NEW s, NEW len, Ordered(dqht, s, len), NEW k \in Keys, GetKey(k)
    PROVE  Map!Next
<1> DEFINE n == IF Found(dqht, k) THEN HitNode(dqht, k) ELSE NULL
<1>1. Return(Peeked(dqht, n))
  BY DEF GetKey, Get
<1>2. Found(dqht, k) => HitNode(dqht, k) \in LiveNodes(dqht) /\ HitNode(dqht, k) # NULL
  BY FoundLive, NullNode DEF Ordered, LiveNodes
<1>3. n = NULL \/ n \in LiveNodes(dqht)
  BY <1>2
<1> HIDE DEF n
<1>4. /\ answer' = Answer(0, IF n = NULL THEN NULL ELSE dqht.node[n].ptr, << >>)
      /\ Pairs = PairsOf(dqht) /\ Pairs' = Pairs
  BY <1>1, <1>3, PeekReturned
<1>5. Map!ValueOf(Map!Old(k)) = IF n = NULL THEN NULL ELSE dqht.node[n].ptr
  <2>1. CASE Found(dqht, k)
    <3>1. Map!Old(k) = <<dqht.node[HitNode(dqht, k)].ptr>>
      BY <1>4, <2>1, HitIs
    <3> QED
      BY <1>2, <2>1, <3>1 DEF Map!ValueOf, n
  <2>2. CASE ~Found(dqht, k)
    <3>1. At(PairsOf(dqht), k) = {}
      BY <2>2, AtIs
    <3>2. Map!With(k) = {}
      BY <1>4, <3>1, Zenon DEF Map!With, At
    <3>3. Map!Old(k) = << >>
      BY <3>2 DEF Map!Old
    <3> QED
      BY <2>2, <3>3 DEF Map!ValueOf, n
  <2> QED
    BY <2>1, <2>2
<1>6. Map!Get(k)
  BY <1>4, <1>5, Zenon DEF Map!Get, Map!Reply, Answer
<1> QED
  BY <1>6 DEF Map!Next

\* dqht_get_front and dqht_get_last
LEMMA GetEndStep ==
    ASSUME NEW s, NEW len, Ordered(dqht, s, len), NEW last \in BOOLEAN, GetEnd(last)
    PROVE  Map!Next
<1> DEFINE n == IF last THEN dqht.tail ELSE dqht.head
           value == IF Pairs = << >> THEN NULL
                    ELSE IF last THEN Map!Last(Pairs)[2] ELSE Head(Pairs)[2]
<1>1. Return(Peeked(dqht, n))
  BY DEF GetEnd
<1>2. /\ n = NULL <=> len = 0
      /\ n # NULL => n \in LiveNodes(dqht)
      /\ PairsOf(dqht) = << >> <=> len = 0
      /\ len # 0 /\ last => PairsOf(dqht)[Len(PairsOf(dqht))] = PairIn(dqht, n)
      /\ len # 0 /\ ~last => Head(PairsOf(dqht)) = PairIn(dqht, n)
  BY EndPairs
<1> HIDE DEF n
<1>3. /\ answer' = Answer(0, IF n = NULL THEN NULL ELSE dqht.node[n].ptr, << >>)
      /\ Pairs = PairsOf(dqht) /\ Pairs' = Pairs
  BY <1>1, <1>2, PeekReturned
<1>4. PairIn(dqht, n)[2] = dqht.node[n].ptr
  BY DEF PairIn
<1>5. value = IF n = NULL THEN NULL ELSE dqht.node[n].ptr
  BY <1>2, <1>3, <1>4, Zenon DEF Map!Last
<1>6. Map!GetEnd(last)
  BY <1>3, <1>5, Zenon DEF Map!GetEnd, Map!Reply, Answer
<1> QED
  BY <1>6 DEF Map!Next

\* dqht_destroy_handled gives the handler the values from front to back.
LEMMA RecreateStep ==
    ASSUME NEW s, NEW len, Ordered(dqht, s, len), NEW handled \in BOOLEAN, Recreate(handled)
    PROVE  Map!Next
<1> DEFINE r == Destroyed(dqht, handled)
           list == Listed(dqht)
           given == [i \in DOMAIN list |-> dqht.node[list[i]].ptr]
<1>1. Return(r)
  BY DEF Recreate
<1>2. Ordered(r.table, << >>, 0)
  BY RecreateIs DEF Sound, Ordered
<1>3. r.answer = Answer(0, NULL, IF handled THEN given ELSE << >>)
  BY Zenon DEF Destroyed
<1> HIDE DEF r
<1>4. answer' = r.answer /\ Pairs = PairsOf(dqht) /\ Pairs' = << >>
  <2>1. r.table.fault = "none"
    BY <1>2 DEF Ordered
  <2>2. PairsOf(r.table) = << >>
    BY <1>2, EndPairs
  <2> QED
    BY <1>1, <2>1, <2>2, Returned
<1>5. given = [i \in DOMAIN Pairs |-> Pairs[i][2]]
  <2>1. list = [i \in 1 .. len |-> s[i]]
    BY ListedIs DEF Ordered
  <2> HIDE DEF list
  <2>2. DOMAIN list = 1 .. len /\ \A i \in 1 .. len : list[i] = s[i]
    BY <2>1
  <2>3. DOMAIN Pairs = 1 .. len /\ \A i \in 1 .. len : Pairs[i] = PairIn(dqht, s[i])
    BY <1>4, PairsIs
  <2>4. \A i \in 1 .. len : Pairs[i][2] = dqht.node[list[i]].ptr
    BY <2>2, <2>3 DEF PairIn
  <2> QED
    BY <2>2, <2>3, <2>4
<1> HIDE DEF given
<1>6. Map!Destroy(handled)
  BY <1>3, <1>4, <1>5, Zenon DEF Map!Destroy, Map!Reply, Answer
<1> QED
  BY <1>6 DEF Map!Next

LEMMA InitMap == Init => Map!Init
<1> SUFFICES ASSUME Init PROVE Map!Init
  OBVIOUS
<1>1. TableInv(dqht) /\ LiveNodes(dqht) = {}
  BY CreateInv DEF Init
<1>2. dqht.head = NULL /\ dqht.tail = NULL /\ dqht.fault = "none"
  BY DEF Init, Create
<1>3. Linked(dqht, {}, << >>, 0)
  BY <1>1, <1>2 DEF Linked
<1>4. Ordered(dqht, << >>, 0)
  BY <1>1, <1>2, <1>3 DEF Ordered
<1>5. PairsOf(dqht) = << >>
  BY <1>4, EndPairs
<1>6. Pairs = << >>
  BY <1>5 DEF Pairs, PairsOf
<1> QED
  BY <1>6 DEF Init, Map!Init, Answer

LEMMA MapStep ==
    ASSUME FreshOnly, Sound(dqht), [Next]_vars
    PROVE  Map!Next \/ UNCHANGED <<Pairs, answer>>
<1>1. PICK s, len : Ordered(dqht, s, len)
  BY DEF Sound, Ordered
<1>2. ASSUME NEW k \in Keys, NEW v \in Values, NEW last \in BOOLEAN, PushKey(k, v, last)
      PROVE  Map!Next
  BY <1>1, <1>2, PushStep
<1>3. ASSUME NEW k \in Keys, NEW taken \in BOOLEAN, RemoveKey(k, taken) PROVE Map!Next
  BY <1>1, <1>3, RemoveStep
<1>4. ASSUME NEW last \in BOOLEAN, PopEnd(last) PROVE Map!Next
  BY <1>1, <1>4, PopStep
<1>5. ASSUME NEW k \in Keys, GetKey(k) PROVE Map!Next
  BY <1>1, <1>5, GetStep
<1>6. ASSUME NEW last \in BOOLEAN, GetEnd(last) PROVE Map!Next
  BY <1>1, <1>6, GetEndStep
<1>7. ASSUME NEW handled \in BOOLEAN, Recreate(handled) PROVE Map!Next
  BY <1>1, <1>7, RecreateStep
<1>8. CASE UNCHANGED vars
  BY <1>8 DEF vars, Pairs
<1> QED
  BY <1>2, <1>3, <1>4, <1>5, <1>6, <1>7, <1>8 DEF Next

\* The hash table and the pointers through it implement the ordered map: every
\* call of dq_hashtable.h, whatever the hash function, the sizes and the order
\* of the calls, answers what the map answers and leaves what the map leaves,
\* also when am_calloc or am_malloc refuses memory.
THEOREM TableIsDequeMap == FreshOnly => (Spec => ImplementsDequeMap)
<1> SUFFICES ASSUME FreshOnly PROVE Spec => ImplementsDequeMap
  OBVIOUS
<1>1. Sound(dqht) /\ [Next]_vars => [Map!Next]_(Map!vars)
  <2> SUFFICES ASSUME Sound(dqht), [Next]_vars PROVE Map!Next \/ UNCHANGED Map!vars
    OBVIOUS
  <2> QED
    BY MapStep DEF Map!vars
<1>2. Spec => []Sound(dqht)
  BY SoundAlways
<1> QED
  BY <1>1, <1>2, InitMap, PTL DEF Spec, ImplementsDequeMap, Map!Spec
=============================================================================
