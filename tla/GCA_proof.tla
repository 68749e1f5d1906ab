------------------------------ MODULE GCA_proof ------------------------------
(***************************************************************************)
(* For any page size, mapping and requests: the boundary tags, the free    *)
(* list and what the clients hold stay exact through every malloc, calloc, *)
(* free and realloc, the break moves only when it must, and the allocator  *)
(* implements the arena.                                                   *)
(***************************************************************************)
EXTENDS GCA, Induction, FiniteSetTheorems

InfoT == [size : Nat, used : BOOLEAN]
HeaderT == [prev : InfoT, curr : InfoT, prev_free : Int, next_free : Int]

Heaps(D) == [mem : [D -> HeaderT], free_list : Int, current_brk : Nat, heap_size : Nat]

Dom(h) == DOMAIN h.mem
Top(h) == gca_data_to_header(h.current_brk)
BlocksOf(h) == Dom(h) \ {Top(h)}
FreeOf(h) == {b \in BlocksOf(h) : ~h.mem[b].curr.used}

HeapType(h) == h \in Heaps(Dom(h)) /\ Dom(h) \subseteq Nat

-----------------------------------------------------------------------------
(* The free list                                                           *)

\* The headers of N, in the order of s, are the free list.
Listed(h, N, s, len) ==
    /\ len \in Nat /\ s \in [1 .. len -> N] /\ N \subseteq Dom(h)
    /\ \A n \in N : \E i \in 1 .. len : s[i] = n
    /\ \A i, j \in 1 .. len : s[i] = s[j] => i = j
    /\ h.free_list = (IF len = 0 THEN NULL ELSE s[1])
    /\ \A i \in 1 .. len : /\ h.mem[s[i]].prev_free = (IF i = 1 THEN NULL ELSE s[i - 1])
                           /\ h.mem[s[i]].next_free = (IF i = len THEN NULL ELSE s[i + 1])

LEMMA ListedSame ==
    ASSUME NEW h, NEW g, NEW N, NEW s, NEW len, Listed(h, N, s, len), N \subseteq Dom(g),
           g.free_list = h.free_list,
           \A n \in N : /\ g.mem[n].prev_free = h.mem[n].prev_free
                        /\ g.mem[n].next_free = h.mem[n].next_free
    PROVE  Listed(g, N, s, len)
BY DEF Listed

\* g is h with other links.
LinksOnly(h, g) ==
    /\ Dom(g) = Dom(h) /\ g.current_brk = h.current_brk /\ g.heap_size = h.heap_size
    /\ \A a \in Dom(h) : g.mem[a].curr = h.mem[a].curr /\ g.mem[a].prev = h.mem[a].prev

LEMMA AddKeeps ==
    ASSUME NEW h, HeapType(h), NEW N, NEW s, NEW len, Listed(h, N, s, len),
           NEW b \in Dom(h) \ N
    PROVE  LET g == gca_add_free_list(h, b)
           IN  /\ HeapType(g) /\ LinksOnly(h, g)
               /\ \E z, l : Listed(g, N \cup {b}, z, l)
<1> DEFINE g == gca_add_free_list(h, b)
           q == h.free_list
           mem == [a \in Dom(h) |->
                     CASE a = b -> [h.mem[a] EXCEPT !.prev_free = NULL, !.next_free = q]
                       [] a = q -> [h.mem[a] EXCEPT !.prev_free = b]
                       [] OTHER -> h.mem[a]]
           M == N \cup {b}
           z == [j \in 1 .. len + 1 |-> IF j = 1 THEN b ELSE s[j - 1]]
<1>1. /\ len \in Nat /\ N \subseteq Dom(h) /\ b \notin N /\ \A j \in 1 .. len : s[j] \in N
      /\ Dom(h) \subseteq Nat /\ NULL \notin Nat /\ NULL \in Int
  BY DEF Listed, HeapType, NULL
<1>2. /\ q = (IF len = 0 THEN NULL ELSE s[1])
      /\ \A j \in 1 .. len : /\ h.mem[s[j]].prev_free = (IF j = 1 THEN NULL ELSE s[j - 1])
                             /\ h.mem[s[j]].next_free = (IF j = len THEN NULL ELSE s[j + 1])
      /\ \A j, k \in 1 .. len : s[j] = s[k] => j = k
      /\ \A m \in N : \E j \in 1 .. len : s[j] = m
  BY DEF Listed
<1>3. h \in Heaps(Dom(h)) /\ h.mem \in [Dom(h) -> HeaderT] /\ q \in Int
  BY DEF HeapType, Heaps
<1>4. (len # 0 => 1 \in 1 .. len /\ q \in N) /\ q # b
  BY <1>1, <1>2
<1>5. g = [h EXCEPT !.free_list = b, !.mem = mem]
  BY Zenon DEF gca_add_free_list, Dom
<1> HIDE DEF q, g
<1>6. ASSUME NEW a \in Dom(h)
      PROVE  /\ mem[a] \in HeaderT
             /\ mem[a].curr = h.mem[a].curr /\ mem[a].prev = h.mem[a].prev
             /\ mem[a].prev_free = (IF a = b THEN NULL ELSE IF a = q THEN b ELSE h.mem[a].prev_free)
             /\ mem[a].next_free = (IF a = b THEN q ELSE h.mem[a].next_free)
  <2>1. h.mem[a] \in HeaderT /\ b \in Int
    BY <1>1, <1>3
  <2>2. CASE a = b
    <3>1. mem[a] = [h.mem[a] EXCEPT !.prev_free = NULL, !.next_free = q]
      BY <1>4, <2>2
    <3> HIDE DEF mem
    <3> QED
      BY <1>1, <1>3, <2>1, <2>2, <3>1 DEF HeaderT
  <2>3. CASE a # b /\ a = q
    <3>1. mem[a] = [h.mem[a] EXCEPT !.prev_free = b]
      BY <2>3
    <3> HIDE DEF mem
    <3> QED
      BY <2>1, <2>3, <3>1 DEF HeaderT
  <2>4. CASE a # b /\ a # q
    <3>1. mem[a] = h.mem[a]
      BY <2>4
    <3> HIDE DEF mem
    <3> QED
      BY <2>1, <2>4, <3>1
  <2> QED
    BY <2>2, <2>3, <2>4
<1>7. mem \in [Dom(h) -> HeaderT]
  BY <1>6
<1> HIDE DEF mem
<1>8. /\ g.mem = mem /\ g.free_list = b /\ g.current_brk = h.current_brk
      /\ g.heap_size = h.heap_size /\ g \in Heaps(Dom(h)) /\ Dom(g) = Dom(h)
  <2>1. b \in Int
    BY <1>1
  <2>2. /\ g.mem = mem /\ g.free_list = b /\ g.current_brk = h.current_brk
        /\ g.heap_size = h.heap_size /\ g \in Heaps(Dom(h))
    BY <1>3, <1>5, <1>7, <2>1 DEF Heaps
  <2>3. DOMAIN mem = Dom(h)
    BY <1>7
  <2> QED
    BY <2>2, <2>3 DEF Dom
<1>9. HeapType(g) /\ LinksOnly(h, g)
  BY <1>1, <1>6, <1>8 DEF HeapType, LinksOnly
<1>10. /\ z[1] = b /\ len + 1 \in Nat /\ len + 1 # 0 /\ 1 \in 1 .. len + 1
       /\ \A j \in 1 .. len : j + 1 \in 1 .. len + 1 /\ z[j + 1] = s[j]
       /\ \A j \in 1 .. len + 1 : j # 1 => j - 1 \in 1 .. len /\ z[j] = s[j - 1]
  BY <1>1
<1>11. z \in [1 .. len + 1 -> M]
  <2>1. \A j \in 1 .. len + 1 : z[j] \in M
    BY <1>1, <1>10
  <2> QED
    BY <2>1
<1> HIDE DEF z
<1>12. \A m \in M : \E j \in 1 .. len + 1 : z[j] = m
  BY <1>2, <1>10
<1>13. \A j, k \in 1 .. len + 1 : z[j] = z[k] => j = k
  BY <1>1, <1>2, <1>10
<1>14. ASSUME NEW j \in 1 .. len + 1
       PROVE  /\ g.mem[z[j]].prev_free = (IF j = 1 THEN NULL ELSE z[j - 1])
              /\ g.mem[z[j]].next_free = (IF j = len + 1 THEN NULL ELSE z[j + 1])
  <2>1. CASE j = 1
    <3>1. z[j] = b /\ g.mem[b].prev_free = NULL /\ g.mem[b].next_free = q
      BY <1>6, <1>8, <1>10, <2>1
    <3>2. j = len + 1 <=> len = 0
      BY <1>1, <2>1
    <3>3. len # 0 => z[j + 1] = s[1]
      BY <1>4, <1>10, <2>1
    <3> QED
      BY <1>2, <2>1, <3>1, <3>2, <3>3
  <2>2. CASE j # 1
    <3> DEFINE i == j - 1
    <3>1. i \in 1 .. len /\ i + 1 = j /\ len # 0
      BY <1>1, <1>10, <2>2
    <3> HIDE DEF i
    <3>2. z[j] = s[i] /\ s[i] \in Dom(h) /\ s[i] # b
      BY <1>1, <1>10, <3>1
    <3>3. g.mem[s[i]].next_free = (IF i = len THEN NULL ELSE s[i + 1])
      BY <1>2, <1>6, <1>8, <3>1, <3>2
    <3>4. i = len <=> j = len + 1
      BY <1>1, <3>1
    <3>5. i # len => j \in 1 .. len /\ z[j + 1] = s[j]
      BY <1>1, <1>10, <3>1
    <3>6. s[i] = q <=> i = 1
      BY <1>2, <1>4, <3>1
    <3>7. g.mem[s[i]].prev_free = (IF i = 1 THEN b ELSE s[i - 1])
      BY <1>2, <1>6, <1>8, <3>1, <3>2, <3>6
    <3>8. j - 1 = i /\ (i # 1 => i - 1 \in 1 .. len /\ (i - 1) + 1 = i)
      BY <1>1, <3>1
    <3>9. z[i] = (IF i = 1 THEN b ELSE s[i - 1])
      BY <1>10, <3>8
    <3> QED
      BY <2>2, <3>1, <3>2, <3>3, <3>4, <3>5, <3>7, <3>8, <3>9
  <2> QED
    BY <2>1, <2>2
<1>15. Listed(g, M, z, len + 1)
  <2>1. M \subseteq Dom(g)
    BY <1>1, <1>8
  <2> HIDE DEF M
  <2> QED
    BY <1>8, <1>10, <1>11, <1>12, <1>13, <1>14, <2>1 DEF Listed
<1> QED
  BY <1>9, <1>15 DEF g

LEMMA RemoveKeeps ==
    ASSUME NEW h, HeapType(h), NEW N, NEW s, NEW len, Listed(h, N, s, len), NEW b \in N
    PROVE  LET g == gca_remove_free_list(h, b)
           IN  /\ HeapType(g) /\ LinksOnly(h, g)
               /\ \E z, l : Listed(g, N \ {b}, z, l)
<1> DEFINE g == gca_remove_free_list(h, b)
           p == h.mem[b].prev_free
           q == h.mem[b].next_free
           mem == [a \in Dom(h) |->
                     CASE a = p -> [h.mem[a] EXCEPT !.next_free = q]
                       [] a = q -> [h.mem[a] EXCEPT !.prev_free = p]
                       [] OTHER -> h.mem[a]]
<1>1. PICK i \in 1 .. len : s[i] = b
  BY DEF Listed
<1>2. /\ len \in Nat /\ N \subseteq Dom(h) /\ \A j \in 1 .. len : s[j] \in N
      /\ Dom(h) \subseteq Nat /\ NULL \notin Nat /\ NULL \in Int /\ NULL \notin N
  BY DEF Listed, HeapType, NULL
<1>3. /\ p = (IF i = 1 THEN NULL ELSE s[i - 1]) /\ q = (IF i = len THEN NULL ELSE s[i + 1])
      /\ i # 1 => i - 1 \in 1 .. len
      /\ i # len => i + 1 \in 1 .. len
  <2>1. p = (IF i = 1 THEN NULL ELSE s[i - 1]) /\ q = (IF i = len THEN NULL ELSE s[i + 1])
    BY <1>1 DEF Listed
  <2> QED
    BY <1>2, <2>1
<1>4. p \in N \cup {NULL} /\ q \in N \cup {NULL} /\ p \in Int /\ q \in Int
  BY <1>2, <1>3
<1>5. \A j, k \in 1 .. len : s[j] = s[k] => j = k
  BY DEF Listed
<1>6. p # NULL => p # q
  BY <1>2, <1>3, <1>5
<1>7. h \in Heaps(Dom(h)) /\ h.mem \in [Dom(h) -> HeaderT]
  BY DEF HeapType, Heaps
<1>8. g = [h EXCEPT !.free_list = IF h.free_list = b THEN q ELSE h.free_list, !.mem = mem]
  BY Zenon DEF gca_remove_free_list, Dom
<1> HIDE DEF p, q, g
<1>9. ASSUME NEW a \in Dom(h)
      PROVE  /\ mem[a] \in HeaderT
             /\ mem[a].curr = h.mem[a].curr /\ mem[a].prev = h.mem[a].prev
             /\ mem[a].next_free = (IF a = p THEN q ELSE h.mem[a].next_free)
             /\ mem[a].prev_free = (IF a = q THEN p ELSE h.mem[a].prev_free)
  <2>1. h.mem[a] \in HeaderT /\ a # NULL
    BY <1>2, <1>7
  <2>2. CASE a = p
    <3>1. mem[a] = [h.mem[a] EXCEPT !.next_free = q] /\ a # q
      BY <1>6, <2>1, <2>2
    <3> HIDE DEF mem
    <3> QED
      BY <1>4, <2>1, <2>2, <3>1 DEF HeaderT
  <2>3. CASE a # p /\ a = q
    <3>1. mem[a] = [h.mem[a] EXCEPT !.prev_free = p]
      BY <2>3
    <3> HIDE DEF mem
    <3> QED
      BY <1>4, <2>1, <2>3, <3>1 DEF HeaderT
  <2>4. CASE a # p /\ a # q
    <3>1. mem[a] = h.mem[a]
      BY <2>4
    <3> HIDE DEF mem
    <3> QED
      BY <2>1, <2>4, <3>1
  <2> QED
    BY <2>2, <2>3, <2>4
<1>10. mem \in [Dom(h) -> HeaderT]
  BY <1>9
<1> HIDE DEF mem
<1>11. /\ g.mem = mem /\ g.free_list = (IF h.free_list = b THEN q ELSE h.free_list)
       /\ g.current_brk = h.current_brk
       /\ g.heap_size = h.heap_size /\ g \in Heaps(Dom(h)) /\ Dom(g) = Dom(h)
  <2>1. h.free_list \in Int
    BY <1>7 DEF Heaps
  <2>2. /\ g.mem = mem /\ g.free_list = (IF h.free_list = b THEN q ELSE h.free_list)
        /\ g.current_brk = h.current_brk
        /\ g.heap_size = h.heap_size /\ g \in Heaps(Dom(h))
    BY <1>4, <1>7, <1>8, <1>10, <2>1 DEF Heaps
  <2>3. DOMAIN mem = Dom(h)
    BY <1>10
  <2> QED
    BY <2>2, <2>3 DEF Dom
<1>12. HeapType(g) /\ LinksOnly(h, g)
  BY <1>2, <1>9, <1>11 DEF HeapType, LinksOnly
<1> DEFINE z == [j \in 1 .. len - 1 |-> IF j < i THEN s[j] ELSE s[j + 1]]
           M == N \ {b}
<1>13. \A j \in 1 .. len - 1 : /\ j < i => j \in 1 .. len /\ z[j] = s[j] /\ j # i
                              /\ ~(j < i) => j + 1 \in 1 .. len /\ z[j] = s[j + 1] /\ j + 1 # i
  BY <1>2
<1>14. z \in [1 .. len - 1 -> M] /\ len - 1 \in Nat
  <2>1. \A j \in 1 .. len - 1 : z[j] \in M
    BY <1>1, <1>2, <1>5, <1>13
  <2> QED
    BY <1>2, <2>1
<1>15. ASSUME NEW m \in M PROVE \E j \in 1 .. len - 1 : z[j] = m
  <2>1. PICK k \in 1 .. len : s[k] = m
    BY DEF Listed
  <2>2. k # i
    BY <1>1, <2>1
  <2>3. CASE k < i
    <3>1. k \in 1 .. len - 1
      BY <1>2, <2>3
    <3> QED
      BY <1>13, <2>1, <2>3, <3>1
  <2>4. CASE k > i
    <3>1. k - 1 \in 1 .. len - 1 /\ ~(k - 1 < i) /\ (k - 1) + 1 = k
      BY <1>2, <2>4
    <3> QED
      BY <1>13, <2>1, <3>1
  <2> QED
    BY <2>2, <2>3, <2>4
<1>16. \A j, k \in 1 .. len - 1 : z[j] = z[k] => j = k
  BY <1>2, <1>5, <1>13
<1>17. M \subseteq Dom(g)
  BY <1>2, <1>11
<1>18. /\ h.free_list = (IF len = 0 THEN NULL ELSE s[1])
       /\ \A j \in 1 .. len : /\ h.mem[s[j]].prev_free = (IF j = 1 THEN NULL ELSE s[j - 1])
                              /\ h.mem[s[j]].next_free = (IF j = len THEN NULL ELSE s[j + 1])
  BY DEF Listed
<1> HIDE DEF M
<1>19. g.free_list = (IF len - 1 = 0 THEN NULL ELSE z[1])
  <2>1. CASE i = 1
    <3>1. g.free_list = q
      BY <1>1, <1>2, <1>11, <1>18, <2>1
    <3>2. len # 1 => 1 \in 1 .. len - 1 /\ z[1] = s[2]
      BY <1>2, <2>1
    <3> QED
      BY <1>2, <1>3, <2>1, <3>1, <3>2
  <2>2. CASE i # 1
    <3>1. len > 1 /\ 1 \in 1 .. len - 1 /\ z[1] = s[1] /\ 1 \in 1 .. len
      BY <1>2, <2>2
    <3>2. h.free_list = s[1] /\ s[1] # b
      BY <1>1, <1>5, <1>18, <2>2, <3>1
    <3> QED
      BY <1>11, <3>1, <3>2
  <2> QED
    BY <2>1, <2>2
<1>20. ASSUME NEW j \in 1 .. len - 1
       PROVE  /\ g.mem[z[j]].prev_free = (IF j = 1 THEN NULL ELSE z[j - 1])
              /\ g.mem[z[j]].next_free = (IF j = len - 1 THEN NULL ELSE z[j + 1])
  <2> DEFINE m == z[j]
             k == IF j < i THEN j ELSE j + 1
  <2>1. k \in 1 .. len /\ m = s[k] /\ k # i /\ m \in Dom(h)
    BY <1>2, <1>13
  <2>2. /\ g.mem[m].next_free = (IF m = p THEN q ELSE h.mem[m].next_free)
        /\ g.mem[m].prev_free = (IF m = q THEN p ELSE h.mem[m].prev_free)
    BY <1>9, <1>11, <2>1
  <2>3. m = p <=> k + 1 = i
    BY <1>2, <1>3, <1>5, <2>1
  <2>4. m = q <=> k = i + 1
    BY <1>2, <1>3, <1>5, <2>1
  <2>5. g.mem[m].prev_free = (IF j = 1 THEN NULL ELSE z[j - 1])
    <3>1. CASE k = i + 1
      <4>1. j = i /\ g.mem[m].prev_free = p
        BY <1>2, <2>1, <2>2, <2>4, <3>1
      <4>2. j # 1 => j - 1 \in 1 .. len - 1 /\ j - 1 < i
        BY <1>2, <4>1
      <4>3. j # 1 => z[j - 1] = s[j - 1]
        BY <1>13, <4>2
      <4> QED
        BY <1>3, <4>1, <4>3
    <3>2. CASE k # i + 1
      <4>1. g.mem[m].prev_free = (IF k = 1 THEN NULL ELSE s[k - 1])
        BY <1>18, <2>1, <2>2, <2>4, <3>2
      <4>2. (k = 1) <=> (j = 1)
        BY <2>1, <3>2
      <4>3. j # 1 => j - 1 \in 1 .. len - 1 /\ (j - 1 < i <=> j < i)
        BY <1>2, <2>1, <3>2
      <4>4. j # 1 => z[j - 1] = s[k - 1]
        BY <1>2, <1>13, <4>3
      <4> QED
        BY <4>1, <4>2, <4>4
    <3> QED
      BY <3>1, <3>2
  <2>6. g.mem[m].next_free = (IF j = len - 1 THEN NULL ELSE z[j + 1])
    <3>1. CASE k + 1 = i
      <4>1. j = k /\ j + 1 = i /\ g.mem[m].next_free = q
        BY <1>2, <2>1, <2>2, <2>3, <3>1
      <4>2. j # len - 1 => j + 1 \in 1 .. len - 1 /\ z[j + 1] = s[i + 1]
        BY <1>2, <4>1
      <4> QED
        BY <1>2, <1>3, <4>1, <4>2
    <3>2. CASE k + 1 # i
      <4>1. g.mem[m].next_free = (IF k = len THEN NULL ELSE s[k + 1])
        BY <1>18, <2>1, <2>2, <2>3, <3>2
      <4>2. (k = len) <=> (j = len - 1)
        BY <1>2, <2>1, <3>2
      <4>3. j # len - 1 => j + 1 \in 1 .. len - 1 /\ z[j + 1] = s[k + 1]
        BY <1>2, <1>13, <2>1, <3>2
      <4> QED
        BY <4>1, <4>2, <4>3
    <3> QED
      BY <3>1, <3>2
  <2> QED
    BY <2>5, <2>6
<1> HIDE DEF z
<1>21. Listed(g, M, z, len - 1)
  BY <1>11, <1>14, <1>15, <1>16, <1>17, <1>19, <1>20 DEF Listed
<1> QED
  BY <1>12, <1>21 DEF g, M

\* The walk along the list is the recursive function of its steps.
Onward(h, b) == IF b = NULL THEN NULL ELSE h.mem[b].next_free

LEMMA ListAtExists ==
    ASSUME NEW h, NEW N \in Nat
    PROVE  \E f : f = [i \in 1 .. N |-> IF i = 1 THEN h.free_list ELSE Onward(h, f[i - 1])]
<1> DEFINE Body(f, n) == [i \in 1 .. n |-> IF i = 1 THEN h.free_list ELSE Onward(h, f[i - 1])]
           S == {n \in Nat : \E f : f = Body(f, n)}
<1>1. 0 \in S
  <2> DEFINE f == [i \in 1 .. 0 |-> h.free_list]
  <2>1. f = Body(f, 0)
    OBVIOUS
  <2> QED
    BY <2>1
<1>2. ASSUME NEW n \in Nat, n \in S PROVE n + 1 \in S
  <2>1. PICK f : f = Body(f, n)
    BY <1>2
  <2> DEFINE last == IF n + 1 = 1 THEN h.free_list ELSE Onward(h, f[n])
             g == [i \in 1 .. n + 1 |-> IF i = n + 1 THEN last ELSE f[i]]
  <2>2. ASSUME NEW i \in 1 .. n + 1
        PROVE  g[i] = IF i = 1 THEN h.free_list ELSE Onward(h, g[i - 1])
    <3>1. CASE i = n + 1
      <4>1. (n # 0 => g[n] = f[n]) /\ i - 1 = n /\ g[i] = last /\ (i = 1 <=> n = 0)
        BY <3>1
      <4> HIDE DEF g
      <4> QED
        BY <3>1, <4>1
    <3>2. CASE i # n + 1
      <4>1. i \in 1 .. n /\ (i # 1 => i - 1 \in 1 .. n)
        BY <3>2
      <4>2. g[i] = f[i] /\ (i # 1 => g[i - 1] = f[i - 1])
        BY <4>1
      <4>3. f[i] = IF i = 1 THEN h.free_list ELSE Onward(h, f[i - 1])
        BY <2>1, <4>1
      <4> HIDE DEF g
      <4> QED
        BY <4>2, <4>3
    <3> QED
      BY <3>1, <3>2
  <2>3. g = Body(g, n + 1)
    BY <2>2
  <2> HIDE DEF g
  <2> QED
    BY <2>3
<1> HIDE DEF S
<1>3. Nat \subseteq S
  BY <1>1, <1>2, SetInduction
<1> QED
  BY <1>3 DEF S

LEMMA ListAtSteps ==
    ASSUME NEW h, Cardinality(Dom(h)) \in Nat
    PROVE  /\ DOMAIN ListAt(h) = 1 .. Cardinality(Dom(h))
           /\ \A i \in 1 .. Cardinality(Dom(h)) :
                ListAt(h)[i] = IF i = 1 THEN h.free_list ELSE Onward(h, ListAt(h)[i - 1])
<1> DEFINE Body(f) == [i \in 1 .. Cardinality(Dom(h)) |->
                         IF i = 1 THEN h.free_list ELSE Onward(h, f[i - 1])]
<1>1. \E f : f = Body(f)
  <2> DEFINE N == Cardinality(Dom(h))
  <2>1. N \in Nat
    OBVIOUS
  <2> HIDE DEF N
  <2>2. \E f : f = [i \in 1 .. N |-> IF i = 1 THEN h.free_list ELSE Onward(h, f[i - 1])]
    BY <2>1, ListAtExists, ZenonT(40)
  <2> QED
    BY <2>2 DEF N
<1>2. ListAt(h) = CHOOSE f : f = Body(f)
  BY DEF ListAt, Onward, Dom
<1>3. ListAt(h) = Body(ListAt(h))
  BY <1>1, <1>2
<1> QED
  BY <1>3

\* The walk meets the list in its order, and then its end.
LEMMA ListAtIs ==
    ASSUME NEW h, HeapType(h), IsFiniteSet(Dom(h)), NEW N, NEW s, NEW len, Listed(h, N, s, len)
    PROVE  /\ DOMAIN ListAt(h) = 1 .. Cardinality(Dom(h)) /\ len <= Cardinality(Dom(h))
           /\ Cardinality(Dom(h)) \in Nat
           /\ \A i \in 1 .. Cardinality(Dom(h)) :
                ListAt(h)[i] = IF i <= len THEN s[i] ELSE NULL
<1> DEFINE c == Cardinality(Dom(h))
           At(j) == ListAt(h)[j] = IF j <= len THEN s[j] ELSE NULL
           S == {j \in Nat : j # 0 /\ j <= c => At(j)}
<1>1. c \in Nat /\ len \in Nat
  BY FS_CardinalityType DEF Listed
<1>2. len <= c
  <2> DEFINE R == 1 .. len
             D == Dom(h)
  <2>1. IsFiniteSet(R) /\ Cardinality(R) = len
    BY <1>1, FS_Interval
  <2>2. s \in [R -> D] /\ \A i, j \in R : s[i] = s[j] => i = j
    BY DEF Listed
  <2>3. IsFiniteSet(D)
    OBVIOUS
  <2> HIDE DEF R, D
  <2>4. ~(Cardinality(D) < Cardinality(R))
    BY <2>1, <2>2, <2>3, FS_PigeonHole
  <2> QED
    BY <1>1, <2>1, <2>4 DEF D
<1>3. /\ DOMAIN ListAt(h) = 1 .. c
      /\ \A i \in 1 .. c : ListAt(h)[i] = IF i = 1 THEN h.free_list ELSE Onward(h, ListAt(h)[i - 1])
  BY <1>1, ListAtSteps
<1> HIDE DEF c
<1>4. 0 \in S
  OBVIOUS
<1>5. ASSUME NEW j \in Nat, j \in S PROVE j + 1 \in S
  <2> SUFFICES ASSUME j + 1 <= c PROVE At(j + 1)
    OBVIOUS
  <2>1. CASE j = 0
    <3>1. ListAt(h)[1] = h.free_list
      BY <1>1, <1>3, <2>1
    <3>2. h.free_list = IF 1 <= len THEN s[1] ELSE NULL
      BY <1>1 DEF Listed
    <3> QED
      BY <2>1, <3>1, <3>2
  <2>2. CASE j # 0
    <3>1. At(j) /\ j + 1 \in 1 .. c /\ j + 1 # 1 /\ (j + 1) - 1 = j
      BY <1>1, <1>5, <2>2
    <3>2. ListAt(h)[j + 1] = Onward(h, ListAt(h)[j])
      BY <1>3, <3>1
    <3>3. CASE j <= len
      <4>1. j \in 1 .. len /\ s[j] # NULL
        BY <1>1, <2>2, <3>3 DEF Listed, HeapType, NULL
      <4>2. h.mem[s[j]].next_free = IF j = len THEN NULL ELSE s[j + 1]
        BY <4>1 DEF Listed
      <4>3. j + 1 <= len <=> j # len
        BY <1>1, <3>3
      <4> QED
        BY <3>1, <3>2, <3>3, <4>1, <4>2, <4>3 DEF Onward
    <3>4. CASE ~(j <= len)
      <4>1. ~(j + 1 <= len)
        BY <1>1, <3>4
      <4> QED
        BY <3>1, <3>2, <3>4, <4>1 DEF Onward
    <3> QED
      BY <3>3, <3>4
  <2> QED
    BY <2>1, <2>2
<1> HIDE DEF S
<1>6. Nat \subseteq S
  BY <1>4, <1>5, SetInduction
<1>7. \A i \in 1 .. c : At(i)
  BY <1>1, <1>6 DEF S
<1> QED
  BY <1>1, <1>2, <1>3, <1>7 DEF c

\* gca_find_free_block answers a block of the list that is large enough, or
\* there is none.
LEMMA FindIs ==
    ASSUME NEW h, HeapType(h), IsFiniteSet(Dom(h)), NEW N, NEW s, NEW len, Listed(h, N, s, len),
           NEW size \in Nat
    PROVE  LET b == gca_find_free_block(h, size)
           IN  \/ b = NULL /\ \A n \in N : h.mem[n].curr.size < size
               \/ b \in N /\ h.mem[b].curr.size >= size
<1> DEFINE at == ListAt(h)
           c == Cardinality(Dom(h))
           fits == {i \in DOMAIN at : at[i] # NULL /\ Fits(h, at[i], size)}
<1>1. /\ DOMAIN at = 1 .. c /\ len <= c /\ c \in Nat
      /\ \A i \in 1 .. c : at[i] = IF i <= len THEN s[i] ELSE NULL
  BY ListAtIs
<1>2. /\ len \in Nat /\ N \subseteq Dom(h) /\ \A j \in 1 .. len : s[j] \in N
      /\ \A n \in N : \E i \in 1 .. len : s[i] = n
      /\ \A n \in N : n # NULL /\ h.mem[n].curr.size \in Nat
  <2>1. \A n \in Dom(h) : n \in Nat /\ h.mem[n].curr.size \in Nat
    BY DEF HeapType, Heaps, HeaderT, InfoT
  <2>2. NULL \notin Nat
    BY DEF NULL
  <2>3. /\ len \in Nat /\ N \subseteq Dom(h) /\ \A j \in 1 .. len : s[j] \in N
        /\ \A n \in N : \E i \in 1 .. len : s[i] = n
    BY DEF Listed
  <2> QED
    BY <2>1, <2>2, <2>3
<1> HIDE DEF at, c
<1>3. CASE fits = {}
  <2>1. gca_find_free_block(h, size) = NULL
    BY <1>3 DEF gca_find_free_block, at
  <2>2. ASSUME NEW n \in N PROVE h.mem[n].curr.size < size
    <3>1. PICK i \in 1 .. len : s[i] = n
      BY <1>2
    <3>2. i \in DOMAIN at /\ at[i] = n /\ n # NULL
      BY <1>1, <1>2, <3>1
    <3> QED
      BY <1>2, <1>3, <3>2 DEF Fits
  <2> QED
    BY <2>1, <2>2
<1>4. CASE fits # {}
  <2>1. fits \in SUBSET Nat
    BY <1>1
  <2>2. \E i \in fits : \A j \in fits : i <= j
    BY <1>4, <2>1, LeastNat
  <2> DEFINE m == CHOOSE i \in fits : \A j \in fits : i <= j
  <2>3. m \in fits /\ gca_find_free_block(h, size) = at[m]
    BY <1>4, <2>2 DEF gca_find_free_block, at
  <2> HIDE DEF m
  <2>4. m \in 1 .. c /\ at[m] # NULL /\ Fits(h, at[m], size)
    BY <1>1, <2>3
  <2>5. m \in 1 .. len /\ at[m] = s[m]
    BY <1>1, <1>2, <2>4
  <2> QED
    BY <1>2, <2>3, <2>4, <2>5 DEF Fits
<1> QED
  BY <1>3, <1>4

-----------------------------------------------------------------------------
(* The boundary tags                                                       *)

\* The block at b ends where the next header begins, and that header says
\* of it what it says itself.
Chained(h, b) ==
    /\ h.mem[b].curr.size >= GCA_DATA_ALIGN
    /\ gca_next(h, b) \in Dom(h)
    /\ h.mem[gca_next(h, b)].prev = h.mem[b].curr
    /\ \A a \in Dom(h) : a <= b \/ gca_next(h, b) <= a

Ends(h) ==
    /\ 0 \in BlocksOf(h) /\ h.mem[0].prev.used
    /\ Top(h) \in Dom(h) /\ h.mem[Top(h)].curr = Info(0, TRUE)
    /\ \A a \in Dom(h) : a <= Top(h)

Aligned(h) == \A a \in Dom(h) : a % GCA_DATA_ALIGN = 0

Tags(h) ==
    /\ HeapType(h) /\ Ends(h) /\ Aligned(h)
    /\ \A b \in BlocksOf(h) : Chained(h, b)
    /\ \A a \in Dom(h) \ {0} : \E b \in BlocksOf(h) : gca_next(h, b) = a

LEMMA TagsFinite ==
    ASSUME NEW h, Tags(h)
    PROVE  IsFiniteSet(Dom(h)) /\ Dom(h) \subseteq Nat
<1>1. Dom(h) \subseteq Nat /\ Top(h) \in Nat /\ \A a \in Dom(h) : a <= Top(h)
  BY DEF Tags, HeapType, Ends
<1>2. Dom(h) \subseteq 0 .. Top(h)
  BY <1>1
<1>3. IsFiniteSet(0 .. Top(h))
  BY <1>1, FS_Interval
<1> QED
  BY <1>1, <1>2, <1>3, FS_Subset

LEMMA HeaderTypes ==
    ASSUME NEW h, HeapType(h), NEW a \in Dom(h)
    PROVE  /\ a \in Nat /\ h.mem[a] \in HeaderT /\ h.mem[a].curr \in InfoT /\ h.mem[a].prev \in InfoT
           /\ h.mem[a].curr.size \in Nat /\ h.mem[a].prev.size \in Nat
           /\ h.mem[a].curr.used \in BOOLEAN /\ h.mem[a].prev.used \in BOOLEAN
           /\ h.mem[a].curr = Info(h.mem[a].curr.size, h.mem[a].curr.used)
           /\ gca_next(h, a) = a + GCA_INFO_SIZE + h.mem[a].curr.size
           /\ gca_next(h, a) \in Nat
<1>1. a \in Nat /\ h.mem[a] \in HeaderT
  BY DEF HeapType, Heaps
<1>2. h.mem[a].curr \in InfoT /\ h.mem[a].prev \in InfoT
  BY <1>1 DEF HeaderT
<1>3. h.mem[a].curr.size \in Nat /\ h.mem[a].prev.size \in Nat
      /\ h.mem[a].curr.used \in BOOLEAN /\ h.mem[a].prev.used \in BOOLEAN
      /\ h.mem[a].curr = Info(h.mem[a].curr.size, h.mem[a].curr.used)
  BY <1>2 DEF InfoT, Info
<1> QED
  BY <1>1, <1>2, <1>3 DEF gca_next, gca_header_to_data, GCA_INFO_SIZE, Word

\* What follows a block lies behind it, and no other block leads there.
LEMMA NextIs ==
    ASSUME NEW h, Tags(h), NEW b \in BlocksOf(h)
    PROVE  /\ b \in Dom(h) /\ b # Top(h) /\ b \in Nat
           /\ gca_next(h, b) \in Dom(h) \ {0} /\ b < gca_next(h, b)
           /\ \A c \in BlocksOf(h) : gca_next(h, c) = gca_next(h, b) => c = b
<1>1. \A c \in BlocksOf(h) : /\ c \in Dom(h) /\ c # Top(h) /\ c \in Nat /\ Chained(h, c)
                            /\ gca_next(h, c) = c + GCA_INFO_SIZE + h.mem[c].curr.size
                            /\ h.mem[c].curr.size \in Nat
  BY HeaderTypes DEF Tags, BlocksOf
<1>2. \A c \in BlocksOf(h) : /\ c < gca_next(h, c) /\ gca_next(h, c) \in Dom(h) /\ gca_next(h, c) \in Nat
                            /\ \A a \in Dom(h) : a <= c \/ gca_next(h, c) <= a
  BY <1>1 DEF Chained, GCA_INFO_SIZE, Word
<1>3. ASSUME NEW c \in BlocksOf(h), gca_next(h, c) = gca_next(h, b) PROVE c = b
  BY <1>1, <1>2, <1>3
<1> QED
  BY <1>1, <1>2, <1>3

\* gca_prev leads back to the block that leads here.
LEMMA PrevIs ==
    ASSUME NEW h, Tags(h), NEW a \in Dom(h) \ {0}
    PROVE  /\ gca_prev(h, a) \in BlocksOf(h) /\ gca_next(h, gca_prev(h, a)) = a
           /\ h.mem[gca_prev(h, a)].curr = h.mem[a].prev
<1>1. PICK b \in BlocksOf(h) : gca_next(h, b) = a
  BY DEF Tags
<1>2. h.mem[a].prev = h.mem[b].curr /\ HeapType(h) /\ b \in Dom(h)
  BY <1>1 DEF Tags, Chained, BlocksOf
<1>3. a = b + GCA_INFO_SIZE + h.mem[b].curr.size /\ b \in Nat /\ h.mem[b].curr.size \in Nat
  BY <1>1, <1>2, HeaderTypes
<1>4. gca_prev(h, a) = b
  BY <1>2, <1>3 DEF gca_prev, gca_data_to_header, GCA_INFO_SIZE, Word
<1> QED
  BY <1>1, <1>2, <1>4

LEMMA LinksTags ==
    ASSUME NEW h, NEW g, Tags(h), HeapType(g), LinksOnly(h, g)
    PROVE  /\ Tags(g) /\ BlocksOf(g) = BlocksOf(h) /\ FreeOf(g) = FreeOf(h)
           /\ \A b \in Dom(h) : gca_next(g, b) = gca_next(h, b)
<1>1. Dom(g) = Dom(h) /\ Top(g) = Top(h)
  BY DEF LinksOnly, Top
<1>2. \A a \in Dom(h) : /\ g.mem[a].curr = h.mem[a].curr /\ g.mem[a].prev = h.mem[a].prev
                       /\ gca_next(g, a) = gca_next(h, a)
  BY DEF LinksOnly, gca_next
<1>3. BlocksOf(g) = BlocksOf(h)
  BY <1>1 DEF BlocksOf
<1>4. FreeOf(g) = FreeOf(h)
  BY <1>2, <1>3 DEF FreeOf, BlocksOf
<1>5. Ends(g) /\ Aligned(g)
  BY <1>1, <1>2, <1>3 DEF Tags, Ends, Aligned, BlocksOf
<1>6. ASSUME NEW b \in BlocksOf(h) PROVE Chained(g, b)
  <2>1. Chained(h, b) /\ b \in Dom(h)
    BY DEF Tags, BlocksOf
  <2> QED
    BY <1>1, <1>2, <2>1 DEF Chained
<1>7. \A a \in Dom(g) \ {0} : \E b \in BlocksOf(g) : gca_next(g, b) = a
  <2>1. \A a \in Dom(h) \ {0} : \E b \in BlocksOf(h) : gca_next(h, b) = a
    BY DEF Tags
  <2> QED
    BY <1>1, <1>2, <1>3, <2>1 DEF BlocksOf
<1> QED
  BY <1>2, <1>3, <1>4, <1>5, <1>6, <1>7 DEF Tags

-----------------------------------------------------------------------------
(* What the operations on headers do to the tags                           *)

\* Only tags differ on the headers that h and g share.
TagsOnly(h, g) ==
    /\ g.free_list = h.free_list /\ g.heap_size = h.heap_size
    /\ \A a \in Dom(h) \cap Dom(g) : /\ g.mem[a].prev_free = h.mem[a].prev_free
                                     /\ g.mem[a].next_free = h.mem[a].next_free

LEMMA AbsorbedIs ==
    ASSUME NEW h, HeapType(h), NEW b \in Dom(h), NEW n \in Dom(h), NEW nn \in Dom(h),
           b # n, nn # b, nn # n
    PROVE  LET g == Absorbed(h, b, n, nn)
               i == Info(h.mem[b].curr.size + GCA_INFO_SIZE + h.mem[n].curr.size, h.mem[b].curr.used)
           IN  /\ HeapType(g) /\ TagsOnly(h, g) /\ g.current_brk = h.current_brk
               /\ Dom(g) = Dom(h) \ {n} /\ i \in InfoT
               /\ \A a \in Dom(g) : /\ g.mem[a].curr = IF a = b THEN i ELSE h.mem[a].curr
                                    /\ g.mem[a].prev = IF a = nn THEN i ELSE h.mem[a].prev
<1> DEFINE g == Absorbed(h, b, n, nn)
           size == h.mem[b].curr.size + GCA_INFO_SIZE + h.mem[n].curr.size
           i == Info(size, h.mem[b].curr.used)
           D == Dom(h) \ {n}
           mem == [a \in D |->
                     CASE a = b -> [h.mem[a] EXCEPT !.curr.size = size]
                       [] a = nn -> [h.mem[a] EXCEPT !.prev = i]
                       [] OTHER -> h.mem[a]]
<1>1. size \in Nat /\ i \in InfoT
  <2>1. size \in Nat /\ h.mem[b].curr.used \in BOOLEAN
    BY HeaderTypes DEF GCA_INFO_SIZE, Word
  <2> QED
    BY <2>1 DEF Info, InfoT
<1>2. g = [h EXCEPT !.mem = mem]
  BY Zenon DEF Absorbed, Dom, FlagBehind
<1>3. h \in Heaps(Dom(h)) /\ D \subseteq Dom(h) /\ Dom(h) \subseteq Nat
  BY DEF HeapType
<1> HIDE DEF size, g
<1>4. ASSUME NEW a \in D
      PROVE  /\ mem[a] \in HeaderT
             /\ mem[a].curr = (IF a = b THEN i ELSE h.mem[a].curr)
             /\ mem[a].prev = (IF a = nn THEN i ELSE h.mem[a].prev)
             /\ mem[a].prev_free = h.mem[a].prev_free /\ mem[a].next_free = h.mem[a].next_free
  <2>1. h.mem[a] \in HeaderT /\ h.mem[a].curr \in InfoT
    BY <1>3, HeaderTypes
  <2>2. CASE a = b
    <3>1. mem[a] = [h.mem[a] EXCEPT !.curr.size = size] /\ a # nn
      BY <2>2
    <3> HIDE DEF mem
    <3>2. mem[a] = [h.mem[a] EXCEPT !.curr = [h.mem[a].curr EXCEPT !.size = size]]
      BY <2>1, <3>1 DEF HeaderT, InfoT
    <3>3. [h.mem[a].curr EXCEPT !.size = size] = i
      BY <2>1, <2>2 DEF InfoT, Info
    <3> HIDE DEF i
    <3> QED
      BY <1>1, <2>1, <2>2, <3>1, <3>2, <3>3 DEF HeaderT
  <2>3. CASE a # b /\ a = nn
    <3>1. mem[a] = [h.mem[a] EXCEPT !.prev = i]
      BY <2>3
    <3> HIDE DEF mem, i
    <3> QED
      BY <1>1, <2>1, <2>3, <3>1 DEF HeaderT
  <2>4. CASE a # b /\ a # nn
    <3>1. mem[a] = h.mem[a]
      BY <2>4
    <3> HIDE DEF mem
    <3> QED
      BY <2>1, <2>4, <3>1
  <2> QED
    BY <2>2, <2>3, <2>4
<1>5. mem \in [D -> HeaderT]
  BY <1>4
<1> HIDE DEF mem, D, i
<1>6. /\ g.mem = mem /\ g.free_list = h.free_list /\ g.current_brk = h.current_brk
      /\ g.heap_size = h.heap_size /\ g \in Heaps(D)
  BY <1>2, <1>3, <1>5 DEF Heaps
<1>7. Dom(g) = D
  <2>1. DOMAIN mem = D
    BY <1>5
  <2> QED
    BY <1>6, <2>1 DEF Dom
<1>8. HeapType(g) /\ TagsOnly(h, g)
  BY <1>3, <1>4, <1>6, <1>7 DEF HeapType, TagsOnly
<1>9. \A a \in Dom(g) : /\ g.mem[a].curr = IF a = b THEN i ELSE h.mem[a].curr
                       /\ g.mem[a].prev = IF a = nn THEN i ELSE h.mem[a].prev
  BY <1>4, <1>6, <1>7
<1>10. Dom(g) = Dom(h) \ {n} /\ i = Info(h.mem[b].curr.size + GCA_INFO_SIZE + h.mem[n].curr.size, h.mem[b].curr.used)
  BY <1>7 DEF D, i, size
<1> QED
  BY <1>1, <1>6, <1>8, <1>9, <1>10 DEF g

LEMMA AbsorbedTags ==
    ASSUME NEW h, Tags(h), NEW b \in BlocksOf(h), gca_next(h, b) \in BlocksOf(h)
    PROVE  LET n == gca_next(h, b)
               g == Absorbed(h, b, n, gca_next(h, n))
           IN  /\ Tags(g) /\ TagsOnly(h, g) /\ Top(g) = Top(h)
               /\ BlocksOf(g) = BlocksOf(h) \ {n}
               /\ gca_next(g, b) = gca_next(h, n)
               /\ g.mem[b].prev = h.mem[b].prev
               /\ g.mem[b].curr = Info(h.mem[b].curr.size + GCA_INFO_SIZE + h.mem[n].curr.size, h.mem[b].curr.used)
               /\ \A a \in BlocksOf(g) \ {b} : /\ g.mem[a].curr = h.mem[a].curr
                                               /\ gca_next(g, a) = gca_next(h, a)
<1> DEFINE n == gca_next(h, b)
           nn == gca_next(h, n)
           g == Absorbed(h, b, n, nn)
           x == h.mem[b].curr.size
           y == h.mem[n].curr.size
           i == Info(x + GCA_INFO_SIZE + y, h.mem[b].curr.used)
<1>1. /\ b \in Dom(h) /\ n \in Dom(h) /\ nn \in Dom(h) /\ b \in Nat /\ n \in Nat /\ nn \in Nat
      /\ b < n /\ n < nn /\ n # Top(h) /\ b # Top(h) /\ n # 0 /\ nn # 0
  <2>1. b \in Dom(h) /\ b \in Nat /\ b < n /\ b # Top(h)
    BY NextIs
  <2>2. n \in Dom(h) /\ n \in Nat /\ n < nn /\ n # Top(h) /\ nn \in Dom(h)
    BY NextIs
  <2> HIDE DEF n, nn
  <2>3. nn \in Nat
    BY <2>2 DEF Tags, HeapType
  <2> QED
    BY <2>1, <2>2, <2>3
<1> HIDE DEF n, nn
<1>2. /\ HeapType(h) /\ x \in Nat /\ y \in Nat
      /\ n = b + GCA_INFO_SIZE + x /\ nn = n + GCA_INFO_SIZE + y
  BY <1>1, HeaderTypes DEF Tags, n, nn
<1>3. /\ HeapType(g) /\ TagsOnly(h, g) /\ g.current_brk = h.current_brk
      /\ Dom(g) = Dom(h) \ {n} /\ i \in InfoT
      /\ \A a \in Dom(g) : /\ g.mem[a].curr = IF a = b THEN i ELSE h.mem[a].curr
                           /\ g.mem[a].prev = IF a = nn THEN i ELSE h.mem[a].prev
  <2>1. b # n /\ nn # b /\ nn # n
    BY <1>1
  <2>2. HeapType(h)
    BY <1>2
  <2> QED
    BY <1>1, <2>1, <2>2, AbsorbedIs
<1> HIDE DEF g, x, y
<1>4. /\ Top(g) = Top(h) /\ BlocksOf(g) = BlocksOf(h) \ {n} /\ b \in Dom(g) /\ nn \in Dom(g)
      /\ i.size = x + GCA_INFO_SIZE + y
      /\ i.used = h.mem[b].curr.used
  BY <1>1, <1>3 DEF Top, BlocksOf, Info
<1>5. gca_next(g, b) = nn
  <2>1. g.mem[b].curr.size = x + GCA_INFO_SIZE + y
    BY <1>3, <1>4
  <2>2. gca_next(g, b) = b + GCA_INFO_SIZE + g.mem[b].curr.size
    BY <1>3, <1>4, HeaderTypes
  <2> HIDE DEF i
  <2> QED
    BY <1>1, <1>2, <2>1, <2>2 DEF GCA_INFO_SIZE, Word
<1>6. \A a \in BlocksOf(g) \ {b} : /\ g.mem[a].curr = h.mem[a].curr
                                  /\ gca_next(g, a) = gca_next(h, a)
  BY <1>3 DEF gca_next, BlocksOf
<1>7. \A a \in BlocksOf(h) : gca_next(h, a) = n => a = b
  BY NextIs DEF n
<1>8. \A a \in BlocksOf(h) : gca_next(h, a) = nn => a = n
  <2>1. n \in BlocksOf(h)
    BY DEF n
  <2> QED
    BY <2>1, NextIs DEF nn
<1>9. Ends(g)
  BY <1>1, <1>3, <1>4 DEF Ends, Tags, BlocksOf
<1>10. Aligned(g)
  BY <1>3 DEF Aligned, Tags
<1>11. ASSUME NEW a \in BlocksOf(g) PROVE Chained(g, a)
  <2>1. CASE a = b
    <3>1. Chained(h, b) /\ Chained(h, n) /\ n \in BlocksOf(h)
      BY DEF Tags, n
    <3>2. \A w \in Dom(h) : w \in Nat /\ (w <= b \/ n <= w) /\ (w <= n \/ nn <= w)
      BY <3>1 DEF Chained, n, nn, Tags, HeapType
    <3>3. \A w \in Dom(g) : w <= b \/ nn <= w
      BY <1>1, <1>3, <3>2
    <3>4. g.mem[nn].prev = i /\ g.mem[b].curr = i
      BY <1>3, <1>4
    <3>5. x >= GCA_DATA_ALIGN
      BY <3>1 DEF Chained, x
    <3>6. i.size >= GCA_DATA_ALIGN
      BY <1>2, <1>4, <3>5 DEF GCA_DATA_ALIGN, GCA_INFO_SIZE, Word
    <3> HIDE DEF i
    <3> QED
      BY <1>4, <1>5, <2>1, <3>3, <3>4, <3>6 DEF Chained
  <2>2. CASE a # b
    <3>1. a \in BlocksOf(h) /\ a # n /\ Chained(h, a)
      BY <1>4 DEF Tags
    <3>2. gca_next(h, a) # n /\ gca_next(h, a) # nn
      BY <1>7, <1>8, <2>2, <3>1
    <3>3. gca_next(g, a) = gca_next(h, a) /\ g.mem[a].curr = h.mem[a].curr
      BY <1>6, <2>2
    <3>4. gca_next(h, a) \in Dom(g)
      BY <1>3, <3>1, <3>2 DEF Chained
    <3>5. g.mem[gca_next(h, a)].prev = h.mem[gca_next(h, a)].prev
      BY <1>3, <3>2, <3>4
    <3> QED
      BY <1>3, <3>1, <3>3, <3>4, <3>5 DEF Chained
  <2> QED
    BY <2>1, <2>2
<1>12. ASSUME NEW a \in Dom(g) \ {0} PROVE \E c \in BlocksOf(g) : gca_next(g, c) = a
  <2>1. PICK c \in BlocksOf(h) : gca_next(h, c) = a
    BY <1>3 DEF Tags
  <2>2. CASE c = n
    BY <1>4, <1>5, <2>1, <2>2 DEF nn, BlocksOf
  <2>3. CASE c # n
    <3>1. c # b
      BY <1>3, <2>1 DEF n
    <3> QED
      BY <1>4, <1>6, <2>1, <2>3, <3>1
  <2> QED
    BY <2>2, <2>3
<1>13. Tags(g)
  BY <1>3, <1>9, <1>10, <1>11, <1>12 DEF Tags
<1>14. g.mem[b].prev = h.mem[b].prev /\ g.mem[b].curr = i
  BY <1>1, <1>3, <1>4
<1> QED
  BY <1>3, <1>4, <1>5, <1>6, <1>13, <1>14 DEF g, n, nn, x, y

-----------------------------------------------------------------------------
(* Well-formed heaps, and joining neighbours                               *)

UsedOf(h) == BlocksOf(h) \ FreeOf(h)

IsListed(h, N) == \E s, len : Listed(h, N, s, len)

\* The tags are exact and the free list holds the free blocks.
WF(h) == Tags(h) /\ IsListed(h, FreeOf(h))

\* No free block outside X has a free block behind it.
Apart(h, X) == \A b \in FreeOf(h) \ X : gca_next(h, b) \notin FreeOf(h)

\* From h to g the block b may have grown over free memory, and nothing else
\* has happened to a block in use.
Grown(h, g, b) ==
    /\ Top(g) = Top(h) /\ BlocksOf(g) \subseteq BlocksOf(h) /\ UsedOf(g) = UsedOf(h)
    /\ b \in BlocksOf(g) /\ g.mem[b].prev = h.mem[b].prev
    /\ g.mem[b].curr.used = h.mem[b].curr.used /\ g.mem[b].curr.size >= h.mem[b].curr.size
    /\ \A a \in BlocksOf(g) \ {b} : g.mem[a].curr = h.mem[a].curr
    /\ \A a \in BlocksOf(h) : a # gca_next(h, b) => a \in BlocksOf(g)

LEMMA FreeIs ==
    ASSUME NEW h, Tags(h), NEW a \in Dom(h), ~h.mem[a].curr.used
    PROVE  a \in FreeOf(h) /\ a \in BlocksOf(h)
<1>1. h.mem[Top(h)].curr.used
  BY DEF Tags, Ends, Info
<1> QED
  BY <1>1 DEF FreeOf, BlocksOf

LEMMA CoalesceNextKeeps ==
    ASSUME NEW h, WF(h), NEW b \in BlocksOf(h)
    PROVE  LET g == gca_coalesce_next(h, b)
               n == gca_next(h, b)
           IN  /\ WF(g) /\ Grown(h, g, b)
               /\ FreeOf(h) \ {n} \subseteq FreeOf(g)
               /\ CoalescesNext(h, b) => g.mem[b].curr.size = h.mem[b].curr.size + GCA_INFO_SIZE + h.mem[n].curr.size
               /\ \A X : Apart(h, X) /\ n \notin X => Apart(g, X \ {b})
<1> DEFINE g == gca_coalesce_next(h, b)
           n == gca_next(h, b)
           nn == gca_next(h, n)
<1>1. Tags(h) /\ HeapType(h) /\ b \in Dom(h) /\ n \in Dom(h) /\ b # n /\ b \in Nat
  BY NextIs DEF WF, Tags
<1>2. CASE ~CoalescesNext(h, b)
  <2>1. g = h
    BY <1>2 DEF gca_coalesce_next
  <2>2. n \notin FreeOf(h)
    BY <1>2 DEF CoalescesNext, FreeOf
  <2> HIDE DEF g, n
  <2>3. h.mem[b].curr.size >= h.mem[b].curr.size
    BY <1>1, HeaderTypes
  <2>4. Grown(h, g, b)
    BY <2>1, <2>3 DEF Grown
  <2>5. ASSUME NEW X, Apart(h, X) PROVE Apart(g, X \ {b})
    BY <2>1, <2>2, <2>5 DEF Apart, n
  <2> QED
    BY <1>2, <2>1, <2>4, <2>5 DEF g, n
<1>3. CASE CoalescesNext(h, b)
  <2> DEFINE f == gca_remove_free_list(h, n)
             N == FreeOf(h) \ {n}
  <2>1. n \in FreeOf(h) /\ n \in BlocksOf(h)
    BY <1>1, <1>3, FreeIs DEF CoalescesNext
  <2> HIDE DEF n
  <2>2. PICK s, len : Listed(h, FreeOf(h), s, len)
    BY DEF WF, IsListed
  <2>3. HeapType(f) /\ LinksOnly(h, f) /\ IsListed(f, N)
    BY <1>1, <2>1, <2>2, RemoveKeeps DEF IsListed
  <2>4. g = Absorbed(f, b, n, nn)
    BY <1>3 DEF gca_coalesce_next, n
  <2> HIDE DEF f, g
  <2>5. /\ Tags(f) /\ BlocksOf(f) = BlocksOf(h) /\ FreeOf(f) = FreeOf(h)
        /\ \A a \in Dom(h) : gca_next(f, a) = gca_next(h, a)
    BY <1>1, <2>3, LinksTags
  <2>6. gca_next(f, b) = n /\ gca_next(f, n) = nn
    BY <1>1, <2>5 DEF n
  <2>7. /\ f.mem[b].curr = h.mem[b].curr /\ f.mem[n].curr = h.mem[n].curr
        /\ f.mem[b].prev = h.mem[b].prev /\ Top(f) = Top(h)
        /\ \A a \in BlocksOf(h) : f.mem[a].curr = h.mem[a].curr
    BY <1>1, <2>3 DEF LinksOnly, Top, BlocksOf
  <2> HIDE DEF nn
  <2>8. /\ Tags(g) /\ TagsOnly(f, g) /\ Top(g) = Top(f)
        /\ BlocksOf(g) = BlocksOf(f) \ {n}
        /\ gca_next(g, b) = nn
        /\ g.mem[b].prev = f.mem[b].prev
        /\ g.mem[b].curr = Info(f.mem[b].curr.size + GCA_INFO_SIZE + f.mem[n].curr.size, f.mem[b].curr.used)
        /\ \A a \in BlocksOf(g) \ {b} : g.mem[a].curr = f.mem[a].curr /\ gca_next(g, a) = gca_next(f, a)
    BY <2>1, <2>4, <2>5, <2>6, AbsorbedTags
  <2> DEFINE x == h.mem[b].curr.size
             y == h.mem[n].curr.size
  <2>9. x \in Nat /\ y \in Nat
    BY <1>1, HeaderTypes
  <2>10. g.mem[b].curr.size = x + GCA_INFO_SIZE + y /\ g.mem[b].curr.used = h.mem[b].curr.used
    BY <2>7, <2>8 DEF Info
  <2> HIDE DEF x, y
  <2>11. g.mem[b].curr.size >= x
    BY <2>9, <2>10 DEF GCA_INFO_SIZE, Word
  <2>12. FreeOf(g) = N
    BY <2>5, <2>7, <2>8, <2>10 DEF FreeOf
  <2>13. UsedOf(g) = UsedOf(h)
    BY <2>1, <2>5, <2>8, <2>12 DEF UsedOf
  <2>14. Grown(h, g, b)
    BY <1>1, <2>5, <2>7, <2>8, <2>10, <2>11, <2>13 DEF Grown, x, n
  <2>15. IsListed(g, FreeOf(g))
    <3>1. PICK z, l : Listed(f, N, z, l)
      BY <2>3 DEF IsListed
    <3>2. N \subseteq Dom(f) /\ N \subseteq Dom(g)
      BY <2>5, <2>12 DEF FreeOf, BlocksOf
    <3>3. Listed(g, N, z, l)
      BY <2>8, <3>1, <3>2, ListedSame DEF TagsOnly
    <3> QED
      BY <2>12, <3>3 DEF IsListed
  <2>16. ASSUME NEW X, Apart(h, X), n \notin X PROVE Apart(g, X \ {b})
    <3>1. ASSUME NEW c \in FreeOf(g) \ (X \ {b}) PROVE gca_next(g, c) \notin FreeOf(g)
      <4>1. c \in FreeOf(h) /\ c \in BlocksOf(g)
        BY <2>12 DEF FreeOf
      <4>2. CASE c = b
        <5>1. nn \notin FreeOf(h)
          BY <2>1, <2>16 DEF Apart, nn
        <5> QED
          BY <2>8, <2>12, <4>2, <5>1
      <4>3. CASE c # b
        <5>1. gca_next(g, c) = gca_next(h, c)
          BY <2>5, <2>8, <4>1, <4>3 DEF FreeOf, BlocksOf
        <5>2. gca_next(h, c) \notin FreeOf(h)
          BY <2>16, <4>1, <4>3 DEF Apart
        <5> QED
          BY <2>12, <5>1, <5>2
      <4> QED
        BY <4>2, <4>3
    <3> QED
      BY <3>1 DEF Apart
  <2> QED
    BY <2>8, <2>10, <2>12, <2>14, <2>15, <2>16 DEF WF, g, n, x, y
<1> QED
  BY <1>2, <1>3

-----------------------------------------------------------------------------
(* A block changes hands                                                   *)

\* From h to g the block b got the info i, in its own header and in the next.
Flagged(h, g, b, i) ==
    /\ Dom(g) = Dom(h) /\ g.free_list = h.free_list
    /\ g.current_brk = h.current_brk /\ g.heap_size = h.heap_size
    /\ \A a \in Dom(h) :
          /\ g.mem[a].curr = IF a = b THEN i ELSE h.mem[a].curr
          /\ g.mem[a].prev = IF a = gca_next(h, b) THEN i ELSE h.mem[a].prev
          /\ a # b => g.mem[a].prev_free = h.mem[a].prev_free /\ g.mem[a].next_free = h.mem[a].next_free

LEMMA InfoFlag ==
    ASSUME NEW i \in InfoT, NEW u \in BOOLEAN
    PROVE  [i EXCEPT !.used = u] = Info(i.size, u) /\ Info(i.size, u) \in InfoT
BY DEF Info, InfoT

LEMMA MarkedIs ==
    ASSUME NEW h, HeapType(h), NEW b \in Dom(h), gca_next(h, b) \in Dom(h), gca_next(h, b) # b,
           h.mem[gca_next(h, b)].prev = h.mem[b].curr
    PROVE  HeapType(Marked(h, b)) /\ Flagged(h, Marked(h, b), b, Info(h.mem[b].curr.size, TRUE))
<1> DEFINE g == Marked(h, b)
           n == gca_next(h, b)
           m == h.mem
           m1 == [m EXCEPT ![b] = [m[b] EXCEPT !.curr = [m[b].curr EXCEPT !.used = TRUE]]]
           m2 == [m1 EXCEPT ![b] = [m1[b] EXCEPT !.prev_free = NULL]]
           m3 == [m2 EXCEPT ![b] = [m2[b] EXCEPT !.next_free = NULL]]
           m4 == [m3 EXCEPT ![n] = [m3[n] EXCEPT !.prev = [m3[n].prev EXCEPT !.used = TRUE]]]
           cb == Info(m[b].curr.size, TRUE)
           pn == Info(m[n].prev.size, TRUE)
           D == Dom(h)
<1>1. g = [h EXCEPT !.mem = m4]
  BY DEF Marked, HeapType, Heaps, HeaderT, InfoT
<1>2. h \in Heaps(D) /\ m \in [D -> HeaderT] /\ D \subseteq Nat /\ b \in D /\ n \in D /\ n # b
  BY DEF HeapType, Heaps
<1>3. /\ cb \in InfoT /\ pn \in InfoT /\ NULL \in Int
      /\ [m[b].curr EXCEPT !.used = TRUE] = cb /\ [m[n].prev EXCEPT !.used = TRUE] = pn
  <2> HIDE DEF n, m
  <2>1. m[b].curr \in InfoT /\ m[n].prev \in InfoT
    BY <1>2 DEF HeaderT
  <2>2. NULL \in Int
    BY DEF NULL
  <2> QED
    BY <2>1, <2>2, InfoFlag
<1> HIDE DEF g, n, m, cb, pn, D
<1>4. /\ m1 \in [D -> HeaderT] /\ m1[b] = [m[b] EXCEPT !.curr = cb]
      /\ \A a \in D \ {b} : m1[a] = m[a]
  BY <1>2, <1>3 DEF HeaderT
<1> HIDE DEF m1
<1>5. /\ m2 \in [D -> HeaderT] /\ m2[b] = [m1[b] EXCEPT !.prev_free = NULL]
      /\ \A a \in D \ {b} : m2[a] = m[a]
  BY <1>2, <1>3, <1>4 DEF HeaderT
<1> HIDE DEF m2
<1>6. /\ m3 \in [D -> HeaderT] /\ m3[b] = [m2[b] EXCEPT !.next_free = NULL]
      /\ \A a \in D \ {b} : m3[a] = m[a]
  <2>1. m2[b] \in HeaderT
    BY <1>2, <1>5
  <2>2. [m2[b] EXCEPT !.next_free = NULL] \in HeaderT
    BY <1>3, <2>1 DEF HeaderT
  <2> QED
    BY <1>2, <1>5, <2>2
<1> HIDE DEF m3
<1>7. /\ m4 \in [D -> HeaderT] /\ m4[n] = [m[n] EXCEPT !.prev = pn]
      /\ \A a \in D \ {n} : m4[a] = m3[a]
  BY <1>2, <1>3, <1>6 DEF HeaderT
<1> HIDE DEF m4
<1>8. m4[b].curr = cb /\ m4[b].prev = m[b].prev
  <2>1. m[b] \in HeaderT /\ m1[b] \in HeaderT /\ m2[b] \in HeaderT /\ m4[b] = m3[b]
    BY <1>2, <1>4, <1>5, <1>7
  <2>2. m1[b].curr = cb /\ m1[b].prev = m[b].prev
    BY <1>4, <2>1 DEF HeaderT
  <2>3. m2[b].curr = cb /\ m2[b].prev = m[b].prev
    BY <1>5, <2>1, <2>2 DEF HeaderT
  <2> QED
    BY <1>6, <2>1, <2>3 DEF HeaderT
<1>9. /\ m4[n].prev = pn /\ m4[n].curr = m[n].curr
      /\ m4[n].prev_free = m[n].prev_free /\ m4[n].next_free = m[n].next_free
  BY <1>2, <1>7 DEF HeaderT
<1>10. \A a \in D \ {b, n} : m4[a] = m[a]
  BY <1>6, <1>7
<1>11. /\ g.mem = m4 /\ g.free_list = h.free_list /\ g.current_brk = h.current_brk
       /\ g.heap_size = h.heap_size /\ g \in Heaps(D)
  BY <1>1, <1>2, <1>7 DEF Heaps
<1>12. Dom(g) = D
  BY <1>7, <1>11 DEF Dom
<1>13. HeapType(g)
  BY <1>2, <1>11, <1>12 DEF HeapType
<1>14. ASSUME NEW a \in D
       PROVE  /\ g.mem[a].curr = (IF a = b THEN cb ELSE m[a].curr)
              /\ g.mem[a].prev = (IF a = n THEN pn ELSE m[a].prev)
              /\ a # b => g.mem[a].prev_free = m[a].prev_free /\ g.mem[a].next_free = m[a].next_free
  BY <1>2, <1>8, <1>9, <1>10, <1>11
<1>15. Flagged(h, g, b, cb)
  BY <1>11, <1>12, <1>14 DEF Flagged, D, m, cb, pn, n
<1> QED
  BY <1>13, <1>15 DEF g, cb, m

LEMMA UnmarkedIs ==
    ASSUME NEW h, HeapType(h), NEW b \in Dom(h), gca_next(h, b) \in Dom(h), gca_next(h, b) # b,
           h.mem[gca_next(h, b)].prev = h.mem[b].curr
    PROVE  HeapType(Unmarked(h, b)) /\ Flagged(h, Unmarked(h, b), b, Info(h.mem[b].curr.size, FALSE))
<1> DEFINE g == Unmarked(h, b)
           n == gca_next(h, b)
           m == h.mem
           m1 == [m EXCEPT ![b] = [m[b] EXCEPT !.curr = [m[b].curr EXCEPT !.used = FALSE]]]
           m2 == [m1 EXCEPT ![n] = [m1[n] EXCEPT !.prev = [m1[n].prev EXCEPT !.used = FALSE]]]
           cb == Info(m[b].curr.size, FALSE)
           pn == Info(m[n].prev.size, FALSE)
           D == Dom(h)
<1>1. g = [h EXCEPT !.mem = m2]
  BY DEF Unmarked, HeapType, Heaps, HeaderT, InfoT
<1>2. h \in Heaps(D) /\ m \in [D -> HeaderT] /\ D \subseteq Nat /\ b \in D /\ n \in D /\ n # b
  BY DEF HeapType, Heaps
<1>3. /\ cb \in InfoT /\ pn \in InfoT
      /\ [m[b].curr EXCEPT !.used = FALSE] = cb /\ [m[n].prev EXCEPT !.used = FALSE] = pn
  <2> HIDE DEF n, m
  <2>1. m[b].curr \in InfoT /\ m[n].prev \in InfoT
    BY <1>2 DEF HeaderT
  <2> QED
    BY <2>1, InfoFlag
<1> HIDE DEF g, n, m, cb, pn, D
<1>4. /\ m1 \in [D -> HeaderT] /\ m1[b] = [m[b] EXCEPT !.curr = cb]
      /\ \A a \in D \ {b} : m1[a] = m[a]
  BY <1>2, <1>3 DEF HeaderT
<1> HIDE DEF m1
<1>5. /\ m2 \in [D -> HeaderT] /\ m2[n] = [m[n] EXCEPT !.prev = pn]
      /\ \A a \in D \ {n} : m2[a] = m1[a]
  BY <1>2, <1>3, <1>4 DEF HeaderT
<1> HIDE DEF m2
<1>6. /\ m2[b].curr = cb /\ m2[b].prev = m[b].prev
      /\ m2[n].prev = pn /\ m2[n].curr = m[n].curr
      /\ m2[n].prev_free = m[n].prev_free /\ m2[n].next_free = m[n].next_free
  BY <1>2, <1>4, <1>5 DEF HeaderT
<1>7. \A a \in D \ {b, n} : m2[a] = m[a]
  BY <1>4, <1>5
<1>8. /\ g.mem = m2 /\ g.free_list = h.free_list /\ g.current_brk = h.current_brk
      /\ g.heap_size = h.heap_size /\ g \in Heaps(D)
  BY <1>1, <1>2, <1>5 DEF Heaps
<1>9. Dom(g) = D
  BY <1>5, <1>8 DEF Dom
<1>10. HeapType(g)
  BY <1>2, <1>8, <1>9 DEF HeapType
<1>11. ASSUME NEW a \in D
       PROVE  /\ g.mem[a].curr = (IF a = b THEN cb ELSE m[a].curr)
              /\ g.mem[a].prev = (IF a = n THEN pn ELSE m[a].prev)
              /\ a # b => g.mem[a].prev_free = m[a].prev_free /\ g.mem[a].next_free = m[a].next_free
  BY <1>2, <1>6, <1>7, <1>8
<1>12. Flagged(h, g, b, cb)
  BY <1>8, <1>9, <1>11 DEF Flagged, D, m, cb, pn, n
<1> QED
  BY <1>10, <1>12 DEF g, cb, m

LEMMA FlaggedTags ==
    ASSUME NEW h, NEW g, Tags(h), HeapType(g), NEW b \in BlocksOf(h), NEW i, i.size = h.mem[b].curr.size,
           Flagged(h, g, b, i)
    PROVE  /\ Tags(g) /\ Top(g) = Top(h) /\ BlocksOf(g) = BlocksOf(h)
           /\ i.used => FreeOf(g) = FreeOf(h) \ {b} /\ UsedOf(g) = UsedOf(h) \cup {b}
           /\ ~i.used => FreeOf(g) = FreeOf(h) \cup {b} /\ UsedOf(g) = UsedOf(h) \ {b}
           /\ \A a \in Dom(h) : gca_next(g, a) = gca_next(h, a) /\ g.mem[a].curr.size = h.mem[a].curr.size
<1> DEFINE n == gca_next(h, b)
<1>1. /\ b \in Dom(h) /\ b # Top(h) /\ n \in Dom(h) \ {0} /\ n # b /\ HeapType(h)
      /\ \A c \in BlocksOf(h) : gca_next(h, c) = n => c = b
  BY NextIs DEF Tags
<1> HIDE DEF n
<1>2. Dom(g) = Dom(h) /\ Top(g) = Top(h) /\ BlocksOf(g) = BlocksOf(h)
  BY DEF Flagged, Top, BlocksOf
<1>3. \A a \in Dom(h) : g.mem[a].curr = IF a = b THEN i ELSE h.mem[a].curr
  BY DEF Flagged
<1>4. \A a \in Dom(h) : a # n => g.mem[a].prev = h.mem[a].prev
  BY DEF Flagged, n
<1>5. \A a \in Dom(h) : g.mem[a].curr.size = h.mem[a].curr.size
  BY <1>3
<1>6. \A a \in Dom(h) : gca_next(g, a) = gca_next(h, a)
  BY <1>5 DEF gca_next
<1>7. ASSUME i.used PROVE FreeOf(g) = FreeOf(h) \ {b} /\ UsedOf(g) = UsedOf(h) \cup {b}
  <2>1. FreeOf(g) = FreeOf(h) \ {b}
    BY <1>1, <1>2, <1>3, <1>7 DEF FreeOf, BlocksOf
  <2> QED
    BY <1>2, <2>1 DEF UsedOf
<1>8. ASSUME ~i.used PROVE FreeOf(g) = FreeOf(h) \cup {b} /\ UsedOf(g) = UsedOf(h) \ {b}
  <2>1. FreeOf(g) = FreeOf(h) \cup {b}
    BY <1>1, <1>2, <1>3, <1>8 DEF FreeOf, BlocksOf
  <2> QED
    BY <1>2, <2>1 DEF UsedOf
<1>9. Ends(g) /\ Aligned(g)
  BY <1>1, <1>2, <1>3, <1>4 DEF Tags, Ends, Aligned, BlocksOf
<1>10. ASSUME NEW a \in BlocksOf(h) PROVE Chained(g, a)
  <2>1. Chained(h, a) /\ a \in Dom(h) /\ gca_next(h, a) \in Dom(h)
    BY DEF Tags, BlocksOf, Chained
  <2>2. g.mem[gca_next(h, a)].prev = g.mem[a].curr
    <3>1. CASE a = b
      <4>1. h.mem[n].prev = h.mem[b].curr
        BY <2>1, <3>1 DEF Chained, n
      <4>2. g.mem[n].prev = i
        BY <1>1 DEF Flagged, n
      <4> QED
        BY <1>1, <1>3, <3>1, <4>1, <4>2 DEF n
    <3>2. CASE a # b
      <4>1. gca_next(h, a) # n
        BY <1>1, <3>2
      <4> QED
        BY <1>3, <1>4, <2>1, <3>2, <4>1 DEF Chained
    <3> QED
      BY <3>1, <3>2
  <2> QED
    BY <1>2, <1>5, <1>6, <2>1, <2>2 DEF Chained
<1>11. ASSUME NEW a \in Dom(g) \ {0} PROVE \E c \in BlocksOf(g) : gca_next(g, c) = a
  <2>1. PICK c \in BlocksOf(h) : gca_next(h, c) = a
    BY <1>2 DEF Tags
  <2> QED
    BY <1>2, <1>6, <2>1 DEF BlocksOf
<1>12. Tags(g)
  BY <1>2, <1>9, <1>10, <1>11 DEF Tags
<1> QED
  BY <1>2, <1>5, <1>6, <1>7, <1>8, <1>12

-----------------------------------------------------------------------------
(* A block is cut in two                                                   *)

\* From h to g the block b was cut: split bytes of it went to rest, before n.
IsCut(h, g, b, size, rest, n, split) ==
    LET i == Info(size, h.mem[b].curr.used)
        j == Info(split, FALSE)
    IN  /\ HeapType(g) /\ TagsOnly(h, g) /\ g.current_brk = h.current_brk
        /\ Dom(g) = Dom(h) \cup {rest}
        /\ \A a \in Dom(g) :
              /\ g.mem[a].curr = IF a = b THEN i ELSE IF a = rest THEN j ELSE h.mem[a].curr
              /\ g.mem[a].prev = IF a = rest THEN i ELSE IF a = n THEN j ELSE h.mem[a].prev

LEMMA CutIs ==
    ASSUME NEW h, HeapType(h), NEW b \in Dom(h), NEW n \in Dom(h), n # b, NEW rest \in Nat \ Dom(h),
           NEW size \in Nat, NEW split \in Nat, split = h.mem[b].curr.size - size - GCA_INFO_SIZE
    PROVE  IsCut(h, Cut(h, b, size, rest, n), b, size, rest, n, split)
<1> DEFINE g == Cut(h, b, size, rest, n)
           i == Info(size, h.mem[b].curr.used)
           j == Info(split, FALSE)
           D == Dom(h) \cup {rest}
           mem == [a \in D |->
                     CASE a = b -> [h.mem[a] EXCEPT !.curr.size = size]
                       [] a = rest -> Header(i, j)
                       [] a = n -> [h.mem[a] EXCEPT !.prev = j]
                       [] OTHER -> h.mem[a]]
<1>1. i \in InfoT /\ j \in InfoT
  <2>1. h.mem[b].curr.used \in BOOLEAN
    BY HeaderTypes
  <2> QED
    BY <2>1 DEF Info, InfoT
<1>2. g = [h EXCEPT !.mem = mem]
  BY Zenon DEF Cut, Dom
<1>3. h \in Heaps(Dom(h)) /\ Dom(h) \subseteq Nat /\ NULL \in Int /\ D \subseteq Nat
  BY DEF HeapType, NULL
<1> HIDE DEF g
<1>4. ASSUME NEW a \in D
      PROVE  /\ mem[a] \in HeaderT
             /\ mem[a].curr = (IF a = b THEN i ELSE IF a = rest THEN j ELSE h.mem[a].curr)
             /\ mem[a].prev = (IF a = rest THEN i ELSE IF a = n THEN j ELSE h.mem[a].prev)
             /\ a \in Dom(h) => mem[a].prev_free = h.mem[a].prev_free /\ mem[a].next_free = h.mem[a].next_free
  <2>1. a # rest => h.mem[a] \in HeaderT /\ h.mem[a].curr \in InfoT /\ h.mem[a].prev \in InfoT
    BY <1>3, HeaderTypes
  <2>2. CASE a = b
    <3>1. mem[a] = [h.mem[a] EXCEPT !.curr.size = size] /\ a # rest
      BY <2>2
    <3> HIDE DEF mem
    <3>2. mem[a] = [h.mem[a] EXCEPT !.curr = [h.mem[a].curr EXCEPT !.size = size]]
      BY <2>1, <3>1 DEF HeaderT, InfoT
    <3>3. [h.mem[a].curr EXCEPT !.size = size] = i
      BY <2>1, <2>2, <3>1 DEF InfoT, Info
    <3> HIDE DEF i, j
    <3> QED
      BY <1>1, <2>1, <2>2, <3>1, <3>2, <3>3 DEF HeaderT
  <2>3. CASE a = rest
    <3>1. mem[a] = Header(i, j) /\ a # b /\ a \notin Dom(h)
      BY <2>3
    <3> HIDE DEF mem, i, j
    <3> QED
      BY <1>1, <1>3, <2>3, <3>1 DEF HeaderT, Header
  <2>4. CASE a # b /\ a # rest /\ a = n
    <3>1. mem[a] = [h.mem[a] EXCEPT !.prev = j]
      BY <2>4
    <3> HIDE DEF mem, i, j
    <3> QED
      BY <1>1, <2>1, <2>4, <3>1 DEF HeaderT
  <2>5. CASE a # b /\ a # rest /\ a # n
    <3>1. mem[a] = h.mem[a]
      BY <2>5
    <3> HIDE DEF mem
    <3> QED
      BY <2>1, <2>5, <3>1
  <2> QED
    BY <2>2, <2>3, <2>4, <2>5
<1>5. mem \in [D -> HeaderT]
  BY <1>4
<1>6. Dom(h) \subseteq D /\ Dom(h) \cup {rest} = D
  OBVIOUS
<1> HIDE DEF mem, D, i, j
<1>7. /\ g.mem = mem /\ g.free_list = h.free_list /\ g.current_brk = h.current_brk
      /\ g.heap_size = h.heap_size /\ g \in Heaps(D)
  BY <1>2, <1>3, <1>5 DEF Heaps
<1>8. Dom(g) = D
  BY <1>5, <1>7 DEF Dom
<1>9. HeapType(g) /\ TagsOnly(h, g)
  BY <1>3, <1>4, <1>7, <1>8 DEF HeapType, TagsOnly
<1>10. \A a \in Dom(g) :
          /\ g.mem[a].curr = IF a = b THEN i ELSE IF a = rest THEN j ELSE h.mem[a].curr
          /\ g.mem[a].prev = IF a = rest THEN i ELSE IF a = n THEN j ELSE h.mem[a].prev
  BY <1>4, <1>7, <1>8
<1> QED
  BY <1>6, <1>7, <1>8, <1>9, <1>10 DEF IsCut, g, i, j

LEMMA CutTags ==
    ASSUME NEW h, Tags(h), NEW b \in BlocksOf(h), NEW size \in Nat, size % GCA_DATA_ALIGN = 0,
           size >= GCA_DATA_ALIGN, Splits(h, b, size)
    PROVE  LET rest == gca_header_to_data(b) + size
               g == Cut(h, b, size, rest, gca_next(h, b))
           IN  /\ Tags(g) /\ TagsOnly(h, g) /\ Top(g) = Top(h)
               /\ rest \notin Dom(h) /\ rest > b /\ BlocksOf(g) = BlocksOf(h) \cup {rest}
               /\ gca_next(g, b) = rest /\ gca_next(g, rest) = gca_next(h, b)
               /\ ~g.mem[rest].curr.used
               /\ g.mem[b].curr = Info(size, h.mem[b].curr.used)
               /\ \A a \in BlocksOf(h) \ {b} : /\ g.mem[a].curr = h.mem[a].curr
                                               /\ gca_next(g, a) = gca_next(h, a)
<1> DEFINE n == gca_next(h, b)
           rest == gca_header_to_data(b) + size
           g == Cut(h, b, size, rest, n)
           x == h.mem[b].curr.size
           i == Info(size, h.mem[b].curr.used)
           split == h.mem[b].curr.size - size - GCA_INFO_SIZE
           j == Info(split, FALSE)
<1>1. /\ b \in Dom(h) /\ n \in Dom(h) /\ b \in Nat /\ b < n /\ b # Top(h) /\ n # 0 /\ HeapType(h)
      /\ \A c \in BlocksOf(h) : gca_next(h, c) = n => c = b
  BY NextIs DEF Tags
<1> HIDE DEF n
<1>2. x \in Nat /\ n = b + GCA_INFO_SIZE + x /\ n \in Nat
  BY <1>1, HeaderTypes DEF n
<1>3. split = x - size - GCA_INFO_SIZE /\ x >= size + GCA_INFO_SIZE + GCA_DATA_ALIGN
  BY DEF Splits
<1> HIDE DEF x, split
<1>4. /\ split \in Nat /\ rest \in Nat /\ b < rest /\ rest < n
      /\ rest = b + GCA_INFO_SIZE + size
      /\ split >= GCA_DATA_ALIGN
      /\ n = rest + GCA_INFO_SIZE + split
  BY <1>1, <1>2, <1>3 DEF gca_header_to_data, GCA_INFO_SIZE, GCA_DATA_ALIGN, Word
<1> HIDE DEF rest
<1>5. \A a \in Dom(h) : a \in Nat /\ (a <= b \/ n <= a)
  BY DEF Tags, Chained, HeapType, n
<1>6. rest \notin Dom(h)
  BY <1>1, <1>2, <1>4, <1>5
<1>7. /\ HeapType(g) /\ TagsOnly(h, g) /\ g.current_brk = h.current_brk
      /\ Dom(g) = Dom(h) \cup {rest}
      /\ \A a \in Dom(g) :
            /\ g.mem[a].curr = IF a = b THEN i ELSE IF a = rest THEN j ELSE h.mem[a].curr
            /\ g.mem[a].prev = IF a = rest THEN i ELSE IF a = n THEN j ELSE h.mem[a].prev
  <2>1. n # b /\ rest \in Nat \ Dom(h) /\ split \in Nat
    BY <1>1, <1>2, <1>4, <1>6
  <2>2. split = h.mem[b].curr.size - size - GCA_INFO_SIZE
    BY DEF split
  <2>3. IsCut(h, g, b, size, rest, n, split)
    BY <1>1, <2>1, <2>2, CutIs
  <2> HIDE DEF g
  <2> QED
    BY <2>3 DEF IsCut
<1> HIDE DEF g
<1>8. /\ i.size = size /\ i.used = h.mem[b].curr.used
      /\ j.size = split /\ j.used = FALSE
  BY DEF Info
<1> HIDE DEF i, j
<1>9. /\ Top(g) = Top(h) /\ BlocksOf(g) = BlocksOf(h) \cup {rest} /\ b \in Dom(g) /\ n \in Dom(g)
      /\ rest \in Dom(g) /\ rest # b /\ rest # n
  <2>1. Top(g) = Top(h) /\ Top(h) \in Dom(h)
    BY <1>7 DEF Top, Tags, Ends
  <2> QED
    BY <1>1, <1>2, <1>4, <1>6, <1>7, <2>1 DEF BlocksOf
<1>10. g.mem[b].curr = i /\ g.mem[rest].prev = i /\ g.mem[rest].curr = j /\ g.mem[n].prev = j
  BY <1>7, <1>9
<1>11. gca_next(g, b) = rest
  <2>1. gca_next(g, b) = b + GCA_INFO_SIZE + g.mem[b].curr.size
    BY <1>7, <1>9, HeaderTypes
  <2> QED
    BY <1>4, <1>8, <1>10, <2>1
<1>12. gca_next(g, rest) = n
  <2>1. gca_next(g, rest) = rest + GCA_INFO_SIZE + g.mem[rest].curr.size
    BY <1>7, <1>9, HeaderTypes
  <2> QED
    BY <1>4, <1>8, <1>10, <2>1
<1>13. \A a \in BlocksOf(h) \ {b} : /\ g.mem[a].curr = h.mem[a].curr
                                  /\ gca_next(g, a) = gca_next(h, a)
  BY <1>6, <1>7 DEF gca_next, BlocksOf
<1>14. Ends(g)
  <2>1. n <= Top(h) /\ Top(h) \in Nat
    BY <1>1 DEF Tags, Ends, HeapType
  <2>2. rest <= Top(h)
    BY <1>2, <1>4, <2>1
  <2>3. 0 # rest /\ 0 # n /\ Top(h) # rest /\ Top(h) # b
    BY <1>1, <1>2, <1>4, <2>1
  <2> QED
    BY <1>6, <1>7, <1>9, <2>2, <2>3 DEF Tags, Ends, BlocksOf
<1>15. Aligned(g)
  <2>1. b % GCA_DATA_ALIGN = 0 /\ \A a \in Dom(h) : a % GCA_DATA_ALIGN = 0
    BY <1>1 DEF Tags, Aligned
  <2>2. rest % GCA_DATA_ALIGN = 0
    BY <1>1, <1>4, <2>1 DEF GCA_DATA_ALIGN, GCA_INFO_SIZE, Word
  <2> QED
    BY <1>7, <2>1, <2>2 DEF Aligned
<1>16. ASSUME NEW a \in BlocksOf(g) PROVE Chained(g, a)
  <2>1. CASE a = b
    <3>1. \A y \in Dom(g) : y <= b \/ rest <= y
      BY <1>1, <1>2, <1>4, <1>5, <1>7
    <3> QED
      BY <1>8, <1>9, <1>10, <1>11, <2>1, <3>1 DEF Chained
  <2>2. CASE a = rest
    <3>1. \A y \in Dom(g) : y <= rest \/ n <= y
      BY <1>1, <1>2, <1>4, <1>5, <1>7
    <3>2. j.size >= GCA_DATA_ALIGN
      BY <1>4, <1>8
    <3> QED
      BY <1>9, <1>10, <1>12, <2>2, <3>1, <3>2 DEF Chained
  <2>3. CASE a # b /\ a # rest
    <3> DEFINE m == gca_next(h, a)
    <3>1. a \in BlocksOf(h) /\ Chained(h, a) /\ gca_next(h, a) # n /\ a \in Dom(h)
      BY <1>1, <1>9, <2>3 DEF Tags, BlocksOf
    <3>2. gca_next(g, a) = m /\ g.mem[a].curr = h.mem[a].curr
      BY <1>13, <2>3, <3>1
    <3>3. m \in Dom(h) /\ m # rest /\ m # n /\ h.mem[m].prev = h.mem[a].curr
      BY <1>6, <3>1 DEF Chained
    <3>4. g.mem[m].prev = g.mem[a].curr /\ m \in Dom(g)
      BY <1>7, <3>2, <3>3
    <3>5. m \in Nat /\ a \in Nat /\ (b <= a \/ m <= b) /\ \A y \in Dom(h) : y <= a \/ m <= y
      BY <1>1, <1>5, <3>1, <3>3 DEF Chained
    <3> HIDE DEF m
    <3>6. rest <= a \/ m <= rest
      BY <1>1, <1>2, <1>4, <1>5, <2>3, <3>1, <3>5
    <3>7. \A y \in Dom(g) : y <= a \/ m <= y
      BY <1>7, <3>5, <3>6
    <3> QED
      BY <3>1, <3>2, <3>4, <3>7 DEF Chained
  <2> QED
    BY <2>1, <2>2, <2>3
<1>17. ASSUME NEW a \in Dom(g) \ {0} PROVE \E c \in BlocksOf(g) : gca_next(g, c) = a
  <2>1. CASE a = rest
    BY <1>1, <1>9, <1>11, <2>1 DEF BlocksOf
  <2>2. CASE a # rest
    <3>1. PICK c \in BlocksOf(h) : gca_next(h, c) = a
      BY <1>7, <2>2 DEF Tags
    <3>2. CASE c = b
      BY <1>9, <1>12, <3>1, <3>2 DEF n
    <3>3. CASE c # b
      BY <1>9, <1>13, <3>1, <3>3
    <3> QED
      BY <3>2, <3>3
  <2> QED
    BY <2>1, <2>2
<1>18. Tags(g)
  BY <1>7, <1>14, <1>15, <1>16, <1>17 DEF Tags
<1>19. ~g.mem[rest].curr.used
  BY <1>8, <1>10
<1> QED
  BY <1>4, <1>6, <1>7, <1>9, <1>10, <1>11, <1>12, <1>13, <1>18, <1>19 DEF g, n, rest, i

-----------------------------------------------------------------------------
(* The break moves up                                                      *)

\* From h to g the break moved up by delta, over a block at top.
IsExtended(h, g, top, delta) ==
    LET new == Info(delta - GCA_INFO_SIZE, FALSE)
    IN  /\ HeapType(g) /\ TagsOnly(h, g) /\ g.current_brk = h.current_brk + delta
        /\ Dom(g) = Dom(h) \cup {top + delta}
        /\ \A a \in Dom(g) :
              /\ g.mem[a].curr = IF a = top THEN new ELSE IF a = top + delta THEN Info(0, TRUE)
                                 ELSE h.mem[a].curr
              /\ g.mem[a].prev = IF a = top + delta THEN new ELSE h.mem[a].prev

LEMMA ExtendedIs ==
    ASSUME NEW h, HeapType(h), Top(h) \in Dom(h), NEW delta \in Nat, delta >= GCA_INFO_SIZE,
           Top(h) + delta \notin Dom(h)
    PROVE  IsExtended(h, Extended(h, delta), Top(h), delta)
<1> DEFINE g == Extended(h, delta)
           top == Top(h)
           end == top + delta
           new == Info(delta - GCA_INFO_SIZE, FALSE)
           last == Info(0, TRUE)
           D == Dom(h) \cup {end}
           mem == [a \in D |->
                     CASE a = top -> [h.mem[a] EXCEPT !.curr = new]
                       [] a = end -> Header(new, last)
                       [] OTHER -> h.mem[a]]
<1>1. new \in InfoT /\ last \in InfoT
  <2>1. delta - GCA_INFO_SIZE \in Nat
    BY DEF GCA_INFO_SIZE, Word
  <2> QED
    BY <2>1 DEF Info, InfoT
<1>2. g = [h EXCEPT !.current_brk = h.current_brk + delta, !.mem = mem]
  BY Zenon DEF Extended, Dom, Top
<1>3. /\ h \in Heaps(Dom(h)) /\ Dom(h) \subseteq Nat /\ NULL \in Int /\ top \in Dom(h) /\ top \in Nat
      /\ h.current_brk \in Nat
  BY DEF HeapType, NULL, Heaps
<1> HIDE DEF g, top, new, last
<1>4. end \in Nat /\ end \notin Dom(h) /\ end # top
  BY <1>3 DEF top
<1> HIDE DEF end
<1>5. ASSUME NEW a \in D
      PROVE  /\ mem[a] \in HeaderT
             /\ mem[a].curr = (IF a = top THEN new ELSE IF a = end THEN last ELSE h.mem[a].curr)
             /\ mem[a].prev = (IF a = end THEN new ELSE h.mem[a].prev)
             /\ a \in Dom(h) => mem[a].prev_free = h.mem[a].prev_free /\ mem[a].next_free = h.mem[a].next_free
  <2>1. a # end => h.mem[a] \in HeaderT
    BY <1>3, HeaderTypes
  <2>2. CASE a = top
    <3>1. mem[a] = [h.mem[a] EXCEPT !.curr = new] /\ a # end
      BY <1>4, <2>2
    <3> HIDE DEF mem
    <3> QED
      BY <1>1, <2>1, <2>2, <3>1 DEF HeaderT
  <2>3. CASE a = end
    <3>1. mem[a] = Header(new, last) /\ a # top /\ a \notin Dom(h)
      BY <1>4, <2>3
    <3> HIDE DEF mem
    <3> QED
      BY <1>1, <1>3, <2>3, <3>1 DEF HeaderT, Header
  <2>4. CASE a # top /\ a # end
    <3>1. mem[a] = h.mem[a]
      BY <2>4
    <3> HIDE DEF mem
    <3> QED
      BY <2>1, <2>4, <3>1
  <2> QED
    BY <2>2, <2>3, <2>4
<1>6. mem \in [D -> HeaderT] /\ D \subseteq Nat
  BY <1>3, <1>4, <1>5
<1>7. Dom(h) \subseteq D /\ Dom(h) \cup {end} = D
  OBVIOUS
<1> HIDE DEF mem, D
<1>8. /\ g.mem = mem /\ g.free_list = h.free_list /\ g.current_brk = h.current_brk + delta
      /\ g.heap_size = h.heap_size /\ g \in Heaps(D)
  <2>1. h.current_brk + delta \in Nat
    BY <1>3
  <2> QED
    BY <1>2, <1>3, <1>6, <2>1 DEF Heaps
<1>9. Dom(g) = D
  BY <1>6, <1>8 DEF Dom
<1>10. HeapType(g) /\ TagsOnly(h, g)
  BY <1>5, <1>6, <1>8, <1>9 DEF HeapType, TagsOnly
<1>11. \A a \in Dom(g) :
          /\ g.mem[a].curr = IF a = top THEN new ELSE IF a = end THEN last ELSE h.mem[a].curr
          /\ g.mem[a].prev = IF a = end THEN new ELSE h.mem[a].prev
  BY <1>5, <1>8, <1>9
<1> QED
  BY <1>7, <1>8, <1>9, <1>10, <1>11 DEF IsExtended, g, new, last, end, top

LEMMA ExtendedTags ==
    ASSUME NEW h, Tags(h), NEW delta \in Nat, delta % GCA_DATA_ALIGN = 0,
           delta >= GCA_INFO_SIZE + GCA_DATA_ALIGN
    PROVE  LET top == Top(h)
               g == Extended(h, delta)
           IN  /\ Tags(g) /\ TagsOnly(h, g) /\ Top(g) # top
               /\ BlocksOf(g) = BlocksOf(h) \cup {top} /\ top \notin BlocksOf(h)
               /\ gca_next(g, top) = Top(g)
               /\ g.mem[top].prev = h.mem[top].prev
               /\ g.mem[top].curr = Info(delta - GCA_INFO_SIZE, FALSE)
               /\ \A a \in BlocksOf(h) : /\ g.mem[a].curr = h.mem[a].curr
                                         /\ gca_next(g, a) = gca_next(h, a)
<1> DEFINE top == Top(h)
           g == Extended(h, delta)
           end == top + delta
           new == Info(delta - GCA_INFO_SIZE, FALSE)
<1>1. /\ HeapType(h) /\ top \in Dom(h) /\ top \in Nat /\ h.current_brk \in Nat
      /\ h.mem[top].curr = Info(0, TRUE) /\ \A a \in Dom(h) : a \in Nat /\ a <= top
      /\ 0 \in Dom(h) /\ 0 # top /\ h.mem[0].prev.used
  BY DEF Tags, Ends, HeapType, Heaps, BlocksOf
<1>2. delta >= GCA_INFO_SIZE /\ end \notin Dom(h) /\ end # top /\ end \in Nat /\ top < end
  BY <1>1 DEF GCA_INFO_SIZE, GCA_DATA_ALIGN, Word
<1>3. IsExtended(h, g, top, delta)
  BY <1>1, <1>2, ExtendedIs
<1> HIDE DEF g
<1>4. Top(g) = end
  BY <1>1, <1>3 DEF IsExtended, Top, gca_data_to_header, GCA_INFO_SIZE, Word
<1> HIDE DEF top
<1>5. /\ HeapType(g) /\ TagsOnly(h, g) /\ Dom(g) = Dom(h) \cup {end}
      /\ \A a \in Dom(g) :
            /\ g.mem[a].curr = IF a = top THEN new ELSE IF a = end THEN Info(0, TRUE)
                               ELSE h.mem[a].curr
            /\ g.mem[a].prev = IF a = end THEN new ELSE h.mem[a].prev
  BY <1>3 DEF IsExtended
<1>6. new.size = delta - GCA_INFO_SIZE /\ new.used = FALSE
  BY DEF Info
<1> HIDE DEF new
<1>7. gca_next(g, top) = end
  <2>1. gca_next(g, top) = top + GCA_INFO_SIZE + g.mem[top].curr.size
    BY <1>1, <1>5, HeaderTypes
  <2>2. g.mem[top].curr.size = delta - GCA_INFO_SIZE
    BY <1>1, <1>5, <1>6
  <2> QED
    BY <1>1, <2>1, <2>2 DEF GCA_INFO_SIZE, Word
<1> HIDE DEF end
<1>8. \A a \in Dom(h) : a \in Nat /\ a <= end /\ a # end
  <2>1. \A a \in Dom(h) : a \in Nat /\ a <= top
    BY <1>1
  <2>2. top \in Nat /\ end \in Nat /\ top < end
    BY <1>1, <1>2
  <2> QED
    BY <2>1, <2>2
<1>9. BlocksOf(g) = BlocksOf(h) \cup {top} /\ top \notin BlocksOf(h)
  BY <1>1, <1>2, <1>4, <1>5 DEF BlocksOf, top
<1>10. ASSUME NEW a \in BlocksOf(h)
      PROVE  /\ g.mem[a].curr = h.mem[a].curr /\ gca_next(g, a) = gca_next(h, a)
             /\ a \in Dom(h) /\ a # top /\ a # end
  BY <1>2, <1>5 DEF gca_next, BlocksOf, top
<1>11. Ends(g)
  <2>1. end <= end
    BY <1>2
  <2>2. \A a \in Dom(g) : a <= end
    BY <1>5, <1>8, <2>1
  <2>3. 0 # end /\ end \in Dom(g) /\ 0 \in Dom(g)
    BY <1>1, <1>2, <1>5
  <2> QED
    BY <1>1, <1>2, <1>4, <1>5, <2>2, <2>3 DEF Ends, BlocksOf
<1>12. Aligned(g)
  <2>1. \A a \in Dom(h) : a % GCA_DATA_ALIGN = 0
    BY DEF Tags, Aligned
  <2>2. end % GCA_DATA_ALIGN = 0
    BY <1>1, <2>1 DEF GCA_DATA_ALIGN, Word, end
  <2> QED
    BY <1>5, <2>1, <2>2 DEF Aligned
<1>13. ASSUME NEW a \in BlocksOf(g) PROVE Chained(g, a)
  <2>1. CASE a = top
    <3>1. \A y \in Dom(g) : y <= top \/ end <= y
      BY <1>1, <1>2, <1>5
    <3>2. new.size >= GCA_DATA_ALIGN
      BY <1>6 DEF GCA_DATA_ALIGN, GCA_INFO_SIZE, Word
    <3>3. g.mem[top].curr = new /\ g.mem[end].prev = new /\ end \in Dom(g)
      BY <1>1, <1>5
    <3> QED
      BY <1>7, <2>1, <3>1, <3>2, <3>3 DEF Chained
  <2>2. CASE a # top
    <3> DEFINE m == gca_next(h, a)
    <3>1. a \in BlocksOf(h) /\ Chained(h, a)
      BY <1>9, <2>2 DEF Tags
    <3>2. m \in Dom(h) /\ h.mem[m].prev = h.mem[a].curr /\ \A y \in Dom(h) : y <= a \/ m <= y
      BY <3>1 DEF Chained
    <3>3. gca_next(g, a) = m /\ g.mem[a].curr = h.mem[a].curr
      BY <1>10, <3>1
    <3> HIDE DEF m
    <3>4. g.mem[m].prev = h.mem[m].prev /\ m <= end /\ m \in Dom(g)
      BY <1>5, <1>8, <3>2
    <3>5. \A y \in Dom(g) : y <= a \/ m <= y
      BY <1>5, <3>2, <3>4
    <3> QED
      BY <3>1, <3>2, <3>3, <3>4, <3>5 DEF Chained
  <2> QED
    BY <2>1, <2>2
<1>14. ASSUME NEW a \in Dom(g) \ {0} PROVE \E c \in BlocksOf(g) : gca_next(g, c) = a
  <2>1. CASE a = end
    BY <1>7, <1>9, <2>1
  <2>2. CASE a # end
    <3>1. PICK c \in BlocksOf(h) : gca_next(h, c) = a
      BY <1>5, <2>2 DEF Tags
    <3> QED
      BY <1>9, <1>10, <3>1
  <2> QED
    BY <2>1, <2>2
<1>15. Tags(g)
  BY <1>5, <1>11, <1>12, <1>13, <1>14 DEF Tags
<1>16. g.mem[top].curr = new /\ g.mem[top].prev = h.mem[top].prev
  BY <1>1, <1>2, <1>5
<1> QED
  BY <1>2, <1>4, <1>5, <1>7, <1>9, <1>10, <1>15, <1>16 DEF g, top, new

-----------------------------------------------------------------------------
(* Rounding in a size_t                                                    *)

LEMMA SizeT ==
    ASSUME NEW n \in Nat
    PROVE  /\ n < 2 ^ SizeBits => size_t(n) = n
           /\ 2 ^ SizeBits <= n /\ n < 2 * 2 ^ SizeBits => size_t(n) = n - 2 ^ SizeBits
<1> DEFINE W == 2 ^ SizeBits
<1>1. W \in Nat /\ W # 0
  BY WidthAssumption, PageAssumption
<1> HIDE DEF W
<1>2. ASSUME n < W PROVE n % W = n
  <2>1. n \in 0 .. W - 1 /\ n = W * 0 + n
    BY <1>1, <1>2
  <2> QED
    BY <1>1, <2>1, ModUnique
<1>3. ASSUME W <= n, n < 2 * W PROVE n % W = n - W
  <2>1. n - W \in 0 .. W - 1 /\ n = W * 1 + (n - W)
    BY <1>1, <1>3
  <2>2. (W * 1 + (n - W)) % W = n - W
    BY <1>1, <2>1, ModUnique
  <2> QED
    BY <2>1, <2>2
<1> QED
  BY <1>2, <1>3 DEF size_t, W

LEMMA AlignedIs ==
    ASSUME NEW n \in 0 .. SIZE_MAX
    PROVE  /\ aligned(n) \in Nat /\ aligned(n) % GCA_DATA_ALIGN = 0 /\ aligned(n) < 2 ^ SizeBits
           /\ aligned(n) # 0 => aligned(n) >= GCA_DATA_ALIGN /\ aligned(n) >= n
<1> DEFINE W == 2 ^ SizeBits
           y == size_t(n + GCA_DATA_ALIGN - 1)
<1>1. W \in Nat /\ W > 48 /\ n \in Nat /\ n < W
  BY WidthAssumption, PageAssumption DEF SIZE_MAX, GCA_INFO_SIZE, GCA_DATA_ALIGN, Word
<1>2. n + 15 < W => y = n + 15
  BY <1>1, SizeT DEF GCA_DATA_ALIGN, Word
<1>3. n + 15 >= W => y = n + 15 - W
  <2>1. n + 15 \in Nat /\ n + 15 < 2 * W
    BY <1>1
  <2> QED
    BY <1>1, <2>1, SizeT DEF GCA_DATA_ALIGN, Word
<1>4. aligned(n) = y - (y % 16)
  BY DEF aligned, gca_round_up, GCA_DATA_ALIGN, Word
<1> HIDE DEF W, y
<1>5. aligned(n) \in Nat /\ aligned(n) % 16 = 0 /\ aligned(n) < W
  BY <1>1, <1>2, <1>3, <1>4
<1>6. aligned(n) # 0 => aligned(n) >= 16 /\ aligned(n) >= n
  BY <1>1, <1>2, <1>3, <1>4
<1> QED
  BY <1>5, <1>6 DEF W, GCA_DATA_ALIGN, Word

\* Where the page of s does not wrap, that of a smaller request does not.
LEMMA PageIs ==
    ASSUME NEW s \in Nat, s % GCA_DATA_ALIGN = 0, s < 2 ^ SizeBits, page_size(s) # 0,
           NEW t \in Nat, t <= s
    PROVE  /\ page_size(t) \in Nat /\ page_size(t) % GCA_DATA_ALIGN = 0
           /\ page_size(t) >= t + GCA_INFO_SIZE
<1> DEFINE W == 2 ^ SizeBits
           A == GCA_SBRK_ALIGN
           u == size_t(s + 16)
           y == size_t(u + A - 1)
<1>1. W \in Nat /\ A \in Nat /\ W > A /\ A >= 48 /\ W % 16 = 0 /\ A % 16 = 0 /\ s % 16 = 0
  BY WidthAssumption, PageAssumption DEF GCA_INFO_SIZE, GCA_DATA_ALIGN, Word
<1>2. /\ \A n \in Nat : n < W => size_t(n) = n
      /\ \A n \in Nat : W <= n /\ n < 2 * W => size_t(n) = n - W
  BY SizeT
<1>3. page_size(s) = y - (y % A) /\ s < W
  BY DEF page_size, gca_round_up, GCA_INFO_SIZE, Word
<1>4. page_size(t) = size_t(size_t(t + 16) + A - 1) - (size_t(size_t(t + 16) + A - 1) % A)
  BY DEF page_size, gca_round_up, GCA_INFO_SIZE, Word
<1> HIDE DEF W, A, u
<1>5. s + 16 < W
  <2> SUFFICES ASSUME s + 16 >= W PROVE FALSE
    BY <1>1
  <2>1. s + 16 = W
    BY <1>1, <1>3
  <2>2. u = 0
    BY <1>1, <1>2, <2>1 DEF u
  <2>3. y = A - 1
    BY <1>1, <1>2, <2>2
  <2>4. (A - 1) % A = A - 1
    <3>1. A - 1 \in 0 .. A - 1 /\ A - 1 = A * 0 + (A - 1) /\ A \in Nat \ {0} /\ 0 \in Int
      BY <1>1
    <3> QED
      BY <3>1, ModUnique
  <2> QED
    BY <1>1, <1>3, <2>3, <2>4
<1>6. u = s + 16
  BY <1>1, <1>2, <1>5 DEF u
<1>7. s + 16 + A - 1 < W
  <2> SUFFICES ASSUME s + 16 + A - 1 >= W PROVE FALSE
    BY <1>1
  <2> DEFINE k == s + 16 + A - 1 - W
  <2>1. k \in 0 .. A - 1 /\ k = A * 0 + k /\ A \in Nat \ {0}
    BY <1>1, <1>5
  <2>2. k % A = k
    BY <2>1, ModUnique
  <2>3. y = k
    <3>1. s + 16 + A - 1 \in Nat /\ s + 16 + A - 1 < 2 * W
      BY <1>1, <1>5
    <3> QED
      BY <1>1, <1>2, <1>6, <3>1
  <2> HIDE DEF k, y
  <2> QED
    BY <1>3, <2>1, <2>2, <2>3
<1> DEFINE x == t + 16 + A - 1
           r == x % A
           q == x \div A
<1>8. x \in Nat /\ t + 16 \in Nat /\ t + 16 < W /\ x < W
  BY <1>1, <1>5, <1>7
<1>9. page_size(t) = x - r
  BY <1>1, <1>2, <1>4, <1>8
<1>10. q \in Int /\ r \in 0 .. A - 1 /\ x = A * q + r
  BY <1>1, <1>8
<1>11. page_size(t) \in Nat /\ page_size(t) >= t + 16
  BY <1>1, <1>8, <1>9, <1>10
<1>12. page_size(t) % 16 = 0
  <2> DEFINE j == A \div 16
  <2>1. j \in Int /\ A = 16 * j
    BY <1>1
  <2> HIDE DEF j, q, r, x
  <2>2. page_size(t) = A * q
    BY <1>1, <1>8, <1>9, <1>10
  <2>3. page_size(t) = 16 * (j * q) + 0 /\ j * q \in Int
    BY <1>10, <2>1, <2>2
  <2> QED
    BY <2>3, ModUnique
<1> QED
  BY <1>11, <1>12 DEF GCA_DATA_ALIGN, GCA_INFO_SIZE, Word

-----------------------------------------------------------------------------
(* The requests, step by step                                              *)

LEMMA ListedMove ==
    ASSUME NEW h, NEW g, NEW N, IsListed(h, N), TagsOnly(h, g), N \subseteq Dom(g)
    PROVE  IsListed(g, N)
<1>1. PICK s, len : Listed(h, N, s, len)
  BY DEF IsListed
<1>2. N \subseteq Dom(h)
  BY <1>1 DEF Listed
<1>3. /\ g.free_list = h.free_list
      /\ \A n \in N : /\ g.mem[n].prev_free = h.mem[n].prev_free
                      /\ g.mem[n].next_free = h.mem[n].next_free
  BY <1>2 DEF TagsOnly
<1>4. Listed(g, N, s, len)
  BY <1>1, <1>3, ListedSame
<1> QED
  BY <1>4 DEF IsListed

\* The last free block that the list lacked is linked.
LEMMA AddWF ==
    ASSUME NEW h, Tags(h), NEW b \in FreeOf(h), NEW N, IsListed(h, N), FreeOf(h) = N \cup {b}, b \notin N
    PROVE  LET g == gca_add_free_list(h, b)
           IN  /\ WF(g) /\ BlocksOf(g) = BlocksOf(h) /\ FreeOf(g) = FreeOf(h) /\ UsedOf(g) = UsedOf(h)
               /\ Top(g) = Top(h)
               /\ \A a \in Dom(h) : /\ gca_next(g, a) = gca_next(h, a) /\ gca_prev(g, a) = gca_prev(h, a)
                                    /\ g.mem[a].curr = h.mem[a].curr /\ g.mem[a].prev = h.mem[a].prev
<1> DEFINE g == gca_add_free_list(h, b)
<1>1. PICK s, len : Listed(h, N, s, len)
  BY DEF IsListed
<1>2. HeapType(h) /\ b \in Dom(h) \ N
  BY DEF Tags, FreeOf, BlocksOf
<1>3. /\ HeapType(g) /\ LinksOnly(h, g) /\ \E z, l : Listed(g, N \cup {b}, z, l)
  BY <1>1, <1>2, AddKeeps
<1> HIDE DEF g
<1>4. IsListed(g, FreeOf(h))
  BY <1>3 DEF IsListed
<1>5. /\ Tags(g) /\ BlocksOf(g) = BlocksOf(h) /\ FreeOf(g) = FreeOf(h)
      /\ \A a \in Dom(h) : gca_next(g, a) = gca_next(h, a)
  BY <1>3, LinksTags
<1>6. /\ Top(g) = Top(h)
      /\ \A a \in Dom(h) : g.mem[a].curr = h.mem[a].curr /\ g.mem[a].prev = h.mem[a].prev
  BY <1>3 DEF LinksOnly, Top
<1>7. \A a \in Dom(h) : gca_prev(g, a) = gca_prev(h, a)
  BY <1>6 DEF gca_prev
<1>8. WF(g) /\ UsedOf(g) = UsedOf(h)
  BY <1>4, <1>5 DEF WF, UsedOf
<1> QED
  BY <1>5, <1>6, <1>7, <1>8 DEF g

\* Nothing has happened to the blocks in use.
KeepsUsed(h, g) ==
    UsedOf(g) = UsedOf(h) /\ \A a \in UsedOf(h) : g.mem[a].curr = h.mem[a].curr

\* Only b may follow a free block and be free.
ApartBut(h, b) ==
    \A c \in FreeOf(h) : gca_next(h, c) # b => gca_next(h, c) \notin FreeOf(h)

LEMMA UsedIs ==
    ASSUME NEW h, NEW a \in BlocksOf(h)
    PROVE  /\ a \in UsedOf(h) <=> h.mem[a].curr.used
           /\ a \in FreeOf(h) <=> ~h.mem[a].curr.used
BY DEF UsedOf, FreeOf

LEMMA CoalescePrevKeeps ==
    ASSUME NEW h, WF(h), NEW b \in FreeOf(h), ApartBut(h, b)
    PROVE  LET g == gca_coalesce_prev(h, b)
               p == PrevOrSelf(h, b)
           IN  /\ WF(g) /\ Apart(g, {}) /\ KeepsUsed(h, g)
               /\ p \in FreeOf(g) /\ g.mem[p].curr.size >= h.mem[b].curr.size
<1> DEFINE g == gca_coalesce_prev(h, b)
           p == PrevOrSelf(h, b)
<1>1. /\ Tags(h) /\ HeapType(h) /\ b \in BlocksOf(h) /\ b \in Dom(h) /\ h.mem[b].curr.size \in Nat
      /\ ~h.mem[b].curr.used
  <2>1. Tags(h) /\ HeapType(h) /\ b \in BlocksOf(h) /\ b \in Dom(h) /\ ~h.mem[b].curr.used
    BY DEF WF, Tags, FreeOf, BlocksOf
  <2> QED
    BY <2>1, HeaderTypes
<1>2. CASE h.mem[b].prev.used
  <2>1. g = h /\ p = b
    BY <1>2 DEF gca_coalesce_prev, PrevOrSelf
  <2> HIDE DEF g, p
  <2>2. ASSUME NEW c \in FreeOf(h) PROVE gca_next(h, c) # b
    <3>1. Chained(h, c) /\ ~h.mem[c].curr.used
      BY <1>1 DEF Tags, FreeOf
    <3> QED
      BY <1>2, <3>1 DEF Chained
  <2>3. Apart(h, {})
    BY <2>2 DEF ApartBut, Apart
  <2>4. KeepsUsed(h, h)
    BY DEF KeepsUsed
  <2>5. h.mem[b].curr.size >= h.mem[b].curr.size
    BY <1>1
  <2> QED
    BY <2>1, <2>3, <2>4, <2>5 DEF g, p
<1>3. CASE ~h.mem[b].prev.used
  <2> DEFINE q == gca_prev(h, b)
  <2>1. g = gca_coalesce_next(h, q) /\ p = q
    BY <1>3 DEF gca_coalesce_prev, PrevOrSelf
  <2>2. b # 0
    BY <1>1, <1>3 DEF Tags, Ends
  <2>3. q \in BlocksOf(h) /\ gca_next(h, q) = b /\ ~h.mem[q].curr.used
    BY <1>1, <1>3, <2>2, PrevIs
  <2> HIDE DEF g, p, q
  <2>4. q # b /\ q \in Dom(h) /\ h.mem[q].curr.size \in Nat
    <3>1. q \in Dom(h) /\ q \in Nat /\ q < gca_next(h, q)
      BY <1>1, <2>3, NextIs
    <3> QED
      BY <1>1, <2>3, <3>1, HeaderTypes
  <2>5. Apart(h, {q})
    <3>1. ASSUME NEW c \in FreeOf(h) \ {q} PROVE gca_next(h, c) \notin FreeOf(h)
      <4>1. gca_next(h, c) # b
        BY <1>1, <2>3, NextIs DEF FreeOf
      <4> QED
        BY <4>1 DEF ApartBut
    <3> QED
      BY <3>1 DEF Apart
  <2>6. CoalescesNext(h, q)
    BY <1>1, <2>3 DEF CoalescesNext
  <2>7. /\ WF(g) /\ Grown(h, g, q)
        /\ g.mem[q].curr.size = h.mem[q].curr.size + GCA_INFO_SIZE + h.mem[b].curr.size
        /\ Apart(g, {q} \ {q})
    BY <2>1, <2>3, <2>4, <2>5, <2>6, CoalesceNextKeeps
  <2>8. Apart(g, {})
    <3>1. {q} \ {q} = {}
      OBVIOUS
    <3> QED
      BY <2>7, <3>1
  <2>9. q \in FreeOf(g) /\ q \notin UsedOf(h)
    BY <2>3, <2>7, UsedIs DEF Grown
  <2>10. KeepsUsed(h, g)
    <3>1. UsedOf(g) = UsedOf(h) /\ UsedOf(g) \subseteq BlocksOf(g)
      BY <2>7 DEF Grown, UsedOf
    <3>2. \A a \in BlocksOf(g) \ {q} : g.mem[a].curr = h.mem[a].curr
      BY <2>7 DEF Grown
    <3> QED
      BY <2>9, <3>1, <3>2 DEF KeepsUsed
  <2>11. g.mem[q].curr.size >= h.mem[b].curr.size
    BY <1>1, <2>4, <2>7 DEF GCA_INFO_SIZE, Word
  <2> QED
    BY <2>1, <2>7, <2>8, <2>9, <2>10, <2>11 DEF g, p
<1> QED
  BY <1>2, <1>3

LEMMA SplitKeeps ==
    ASSUME NEW h, WF(h), Apart(h, {}), NEW b \in BlocksOf(h), NEW size \in Nat, size % GCA_DATA_ALIGN = 0,
           size >= GCA_DATA_ALIGN, size <= h.mem[b].curr.size
    PROVE  LET g == gca_split_block(h, b, size)
           IN  /\ WF(g) /\ Apart(g, {b}) /\ UsedOf(g) = UsedOf(h)
               /\ b \in BlocksOf(g) /\ g.mem[b].curr.used = h.mem[b].curr.used
               /\ g.mem[b].curr.size >= size
               /\ \A a \in UsedOf(h) \ {b} : g.mem[a].curr = h.mem[a].curr
<1> DEFINE g == gca_split_block(h, b, size)
           n == gca_next(h, b)
           rest == gca_header_to_data(b) + size
           c == Cut(h, b, size, rest, n)
           f == gca_add_free_list(c, rest)
<1>1. CASE ~Splits(h, b, size)
  <2>1. g = h
    BY <1>1 DEF gca_split_block
  <2> HIDE DEF g
  <2>2. h.mem[b].curr.size >= size /\ Apart(h, {b})
    <3>1. h.mem[b].curr.size \in Nat
      BY HeaderTypes DEF WF, Tags, BlocksOf
    <3> QED
      BY <3>1 DEF Apart
  <2> QED
    BY <2>1, <2>2 DEF g
<1>2. CASE Splits(h, b, size)
  <2>1. g = gca_coalesce_next(f, rest)
    BY <1>2 DEF gca_split_block, Rest
  <2>2. Tags(h) /\ b \in Dom(h) /\ b \in Nat /\ n \in Dom(h) /\ n \in Nat
    <3>1. Tags(h) /\ Dom(h) \subseteq Nat
      BY DEF WF, Tags, HeapType
    <3> QED
      BY <3>1, NextIs
  <2> HIDE DEF g, n
  <2>3. /\ Tags(c) /\ TagsOnly(h, c) /\ Top(c) = Top(h)
        /\ rest \notin Dom(h) /\ rest > b /\ BlocksOf(c) = BlocksOf(h) \cup {rest}
        /\ gca_next(c, b) = rest /\ gca_next(c, rest) = n
        /\ ~c.mem[rest].curr.used
        /\ c.mem[b].curr = Info(size, h.mem[b].curr.used)
        /\ \A a \in BlocksOf(h) \ {b} : /\ c.mem[a].curr = h.mem[a].curr
                                        /\ gca_next(c, a) = gca_next(h, a)
    BY <1>2, <2>2, CutTags DEF n
  <2> HIDE DEF f, c, rest
  <2>4. c.mem[b].curr.size = size /\ c.mem[b].curr.used = h.mem[b].curr.used
    BY <2>3 DEF Info
  <2>5. rest \in BlocksOf(c) /\ rest \in FreeOf(c) /\ rest \notin BlocksOf(h) /\ rest # b /\ b \in BlocksOf(c)
    BY <2>3 DEF FreeOf, BlocksOf
  <2>6. FreeOf(c) = FreeOf(h) \cup {rest} /\ rest \notin FreeOf(h) /\ UsedOf(c) = UsedOf(h)
    <3>1. \A a \in BlocksOf(h) : c.mem[a].curr.used = h.mem[a].curr.used
      BY <2>3, <2>4
    <3>2. FreeOf(c) = FreeOf(h) \cup {rest} /\ rest \notin FreeOf(h)
      BY <2>3, <2>5, <3>1 DEF FreeOf
    <3> QED
      BY <2>3, <2>5, <3>2 DEF UsedOf
  <2>7. IsListed(c, FreeOf(h))
    <3>1. IsListed(h, FreeOf(h)) /\ FreeOf(h) \subseteq Dom(c)
      BY <2>6 DEF WF, FreeOf, BlocksOf
    <3> QED
      BY <2>3, <3>1, ListedMove
  <2>8. /\ WF(f) /\ BlocksOf(f) = BlocksOf(c) /\ FreeOf(f) = FreeOf(c) /\ UsedOf(f) = UsedOf(c)
        /\ \A a \in Dom(c) : gca_next(f, a) = gca_next(c, a) /\ f.mem[a].curr = c.mem[a].curr
    BY <2>3, <2>5, <2>6, <2>7, AddWF DEF f
  <2>9. /\ BlocksOf(c) \subseteq Dom(c) /\ gca_next(f, rest) = n /\ rest \in BlocksOf(f)
        /\ rest \in Nat /\ rest < n
    <3>1. BlocksOf(c) \subseteq Dom(c) /\ gca_next(f, rest) = n /\ rest \in BlocksOf(f)
      BY <2>3, <2>5, <2>8 DEF BlocksOf
    <3>2. Tags(f)
      BY <2>8 DEF WF
    <3> QED
      BY <3>1, <3>2, NextIs
  <2>10. n # b /\ n # rest /\ n \notin {b, rest}
    BY <2>2, <2>3, <2>9
  <2>11. Apart(f, {b, rest})
    <3>1. ASSUME NEW a \in FreeOf(f) \ {b, rest} PROVE gca_next(f, a) \notin FreeOf(f)
      <4>1. a \in FreeOf(h) /\ a \in BlocksOf(h) \ {b} /\ a \in Dom(c)
        BY <2>3, <2>6, <2>8, <2>9 DEF FreeOf
      <4>2. gca_next(f, a) = gca_next(h, a)
        BY <2>3, <2>8, <4>1
      <4>3. gca_next(h, a) \notin FreeOf(h) /\ gca_next(h, a) \in Dom(h)
        BY <2>2, <4>1, NextIs DEF Apart
      <4> QED
        BY <2>3, <2>6, <2>8, <4>2, <4>3
    <3> QED
      BY <3>1 DEF Apart
  <2>12. WF(g) /\ Grown(f, g, rest) /\ Apart(g, {b, rest} \ {rest})
    BY <2>1, <2>8, <2>9, <2>10, <2>11, CoalesceNextKeeps
  <2>13. Apart(g, {b})
    <3>1. {b, rest} \ {rest} = {b}
      BY <2>5
    <3> QED
      BY <2>12, <3>1
  <2>14. /\ UsedOf(g) = UsedOf(f) /\ b \in BlocksOf(g)
         /\ \A a \in BlocksOf(g) \ {rest} : g.mem[a].curr = f.mem[a].curr
    BY <2>5, <2>8, <2>9, <2>10, <2>12 DEF Grown
  <2>15. g.mem[b].curr.size = size /\ g.mem[b].curr.used = h.mem[b].curr.used
    BY <2>4, <2>5, <2>8, <2>9, <2>14
  <2>16. ASSUME NEW a \in UsedOf(h) \ {b} PROVE g.mem[a].curr = h.mem[a].curr
    <3>1. a \in BlocksOf(h) /\ a # rest /\ a \in Dom(c) /\ a \in BlocksOf(g)
      BY <2>3, <2>5, <2>6, <2>8, <2>9, <2>14 DEF UsedOf
    <3> QED
      BY <2>3, <2>8, <2>14, <3>1
  <2>17. g.mem[b].curr.size >= size
    BY <2>15
  <2> QED
    BY <2>6, <2>8, <2>12, <2>13, <2>14, <2>15, <2>16, <2>17 DEF g
<1> QED
  BY <1>1, <1>2

LEMMA NewBlockKeeps ==
    ASSUME NEW h, WF(h), Apart(h, {}), NEW size \in Nat, CanMove(h, page_size(size)),
           page_size(size) \in Nat, page_size(size) % GCA_DATA_ALIGN = 0,
           size >= GCA_DATA_ALIGN, page_size(size) >= size + GCA_INFO_SIZE
    PROVE  LET r == gca_sbrk_new_block(h, size)
           IN  /\ WF(r.h) /\ Apart(r.h, {}) /\ KeepsUsed(h, r.h)
               /\ r.block \in FreeOf(r.h) /\ r.h.mem[r.block].curr.size >= size
               /\ h.mem[Top(h)].prev.used => r.block = Top(h)
<1> DEFINE r == gca_sbrk_new_block(h, size)
           delta == page_size(size)
           top == Top(h)
           e == Extended(h, delta)
           f == gca_add_free_list(e, top)
<1>1. r = [h |-> gca_coalesce_prev(f, top), block |-> PrevOrSelf(e, top)]
  BY DEF gca_sbrk_new_block, NewBlock, Top
<1>2. Tags(h) /\ delta \in Nat /\ top \in Dom(h)
  BY DEF WF, Tags, Ends
<1> HIDE DEF r
<1>3. delta >= GCA_INFO_SIZE + GCA_DATA_ALIGN /\ delta - GCA_INFO_SIZE >= size
  BY <1>2 DEF GCA_INFO_SIZE, GCA_DATA_ALIGN, Word
<1> HIDE DEF delta
<1>4. /\ Tags(e) /\ TagsOnly(h, e) /\ Top(e) # top
      /\ BlocksOf(e) = BlocksOf(h) \cup {top} /\ top \notin BlocksOf(h)
      /\ gca_next(e, top) = Top(e)
      /\ e.mem[top].prev = h.mem[top].prev
      /\ e.mem[top].curr = Info(delta - GCA_INFO_SIZE, FALSE)
      /\ \A a \in BlocksOf(h) : e.mem[a].curr = h.mem[a].curr /\ gca_next(e, a) = gca_next(h, a)
  BY <1>2, <1>3, ExtendedTags DEF delta
<1> HIDE DEF e, top, f
<1>5. e.mem[top].curr.size = delta - GCA_INFO_SIZE /\ ~e.mem[top].curr.used
  BY <1>4 DEF Info
<1>6. FreeOf(e) = FreeOf(h) \cup {top} /\ top \in FreeOf(e) /\ top \notin FreeOf(h) /\ UsedOf(e) = UsedOf(h)
  <2>1. FreeOf(e) = FreeOf(h) \cup {top} /\ top \notin FreeOf(h)
    BY <1>4, <1>5 DEF FreeOf
  <2> QED
    BY <1>4, <2>1 DEF UsedOf
<1>7. IsListed(e, FreeOf(h))
  <2>1. IsListed(h, FreeOf(h)) /\ FreeOf(h) \subseteq Dom(e)
    BY <1>6 DEF WF, FreeOf, BlocksOf
  <2> QED
    BY <1>4, <2>1, ListedMove
<1>8. /\ WF(f) /\ BlocksOf(f) = BlocksOf(e) /\ FreeOf(f) = FreeOf(e) /\ UsedOf(f) = UsedOf(e)
      /\ \A a \in Dom(e) : /\ gca_next(f, a) = gca_next(e, a) /\ gca_prev(f, a) = gca_prev(e, a)
                           /\ f.mem[a].curr = e.mem[a].curr /\ f.mem[a].prev = e.mem[a].prev
  BY <1>4, <1>6, <1>7, AddWF DEF f
<1>9. BlocksOf(e) \subseteq Dom(e) /\ top \in Dom(e) /\ Top(e) \notin FreeOf(e)
  BY <1>4 DEF BlocksOf, FreeOf
<1>10. ApartBut(f, top)
  <2>1. ASSUME NEW c \in FreeOf(f), gca_next(f, c) # top PROVE gca_next(f, c) \notin FreeOf(f)
    <3>1. CASE c = top
      BY <1>4, <1>8, <1>9, <3>1
    <3>2. CASE c # top
      <4>1. c \in FreeOf(h) /\ c \in BlocksOf(h) /\ c \in Dom(e)
        BY <1>6, <1>8, <1>9, <3>2 DEF FreeOf
      <4>2. gca_next(f, c) = gca_next(h, c)
        BY <1>4, <1>8, <4>1
      <4>3. gca_next(h, c) \notin FreeOf(h)
        BY <4>1 DEF Apart
      <4> QED
        BY <1>6, <1>8, <2>1, <4>2, <4>3
    <3> QED
      BY <3>1, <3>2
  <2> QED
    BY <2>1 DEF ApartBut
<1>11. PrevOrSelf(e, top) = PrevOrSelf(f, top)
  BY <1>8, <1>9 DEF PrevOrSelf
<1>12. r.h = gca_coalesce_prev(f, top) /\ r.block = PrevOrSelf(f, top)
  BY <1>1, <1>11
<1>13. /\ WF(r.h) /\ Apart(r.h, {}) /\ KeepsUsed(f, r.h)
       /\ r.block \in FreeOf(r.h) /\ r.h.mem[r.block].curr.size >= f.mem[top].curr.size
  BY <1>6, <1>8, <1>10, <1>12, CoalescePrevKeeps
<1>14. f.mem[top].curr.size = delta - GCA_INFO_SIZE
  BY <1>5, <1>8, <1>9
<1>15. r.h.mem[r.block].curr.size >= size
  <2>1. r.h.mem[r.block].curr.size \in Nat
    BY <1>13, HeaderTypes DEF WF, Tags, FreeOf, BlocksOf
  <2>2. r.h.mem[r.block].curr.size >= delta - GCA_INFO_SIZE
    BY <1>13, <1>14
  <2> QED
    BY <1>2, <1>3, <2>1, <2>2 DEF delta, GCA_INFO_SIZE, Word
<1>16. KeepsUsed(h, r.h)
  <2>1. ASSUME NEW a \in UsedOf(h) PROVE f.mem[a].curr = h.mem[a].curr
    <3>1. a \in BlocksOf(h) /\ a \in Dom(e)
      BY <1>4, <1>9 DEF UsedOf
    <3> QED
      BY <1>4, <1>8, <3>1
  <2> QED
    BY <1>6, <1>8, <1>13, <2>1 DEF KeepsUsed
<1>17. h.mem[top].prev.used => r.block = top
  BY <1>4, <1>8, <1>9, <1>12 DEF PrevOrSelf
<1> QED
  BY <1>13, <1>15, <1>16, <1>17 DEF r, top

\* What gca_malloc and the calls that end in it make of the block they found.
LEMMA TakenKeeps ==
    ASSUME NEW h, WF(h), Apart(h, {}), NEW b \in FreeOf(h), NEW size \in Nat, size % GCA_DATA_ALIGN = 0,
           size >= GCA_DATA_ALIGN, size <= h.mem[b].curr.size
    PROVE  LET g == Marked(gca_remove_free_list(gca_split_block(h, b, size), b), b)
           IN  /\ WF(g) /\ Apart(g, {}) /\ UsedOf(g) = UsedOf(h) \cup {b}
               /\ g.mem[b].curr.size >= size
               /\ \A a \in UsedOf(h) : g.mem[a].curr = h.mem[a].curr
<1> DEFINE c == gca_split_block(h, b, size)
           f == gca_remove_free_list(c, b)
           g == Marked(f, b)
<1>1. b \in BlocksOf(h) /\ ~h.mem[b].curr.used /\ b \notin UsedOf(h)
  BY DEF FreeOf, UsedOf
<1>2. /\ WF(c) /\ Apart(c, {b}) /\ UsedOf(c) = UsedOf(h)
      /\ b \in BlocksOf(c) /\ c.mem[b].curr.used = h.mem[b].curr.used
      /\ c.mem[b].curr.size >= size
      /\ \A a \in UsedOf(h) \ {b} : c.mem[a].curr = h.mem[a].curr
  BY <1>1, SplitKeeps
<1> HIDE DEF c
<1>3. b \in FreeOf(c) /\ Tags(c) /\ HeapType(c)
  BY <1>1, <1>2 DEF FreeOf, WF, Tags
<1>4. PICK s, len : Listed(c, FreeOf(c), s, len)
  BY <1>2 DEF WF, IsListed
<1>5. HeapType(f) /\ LinksOnly(c, f) /\ IsListed(f, FreeOf(c) \ {b})
  BY <1>3, <1>4, RemoveKeeps DEF IsListed
<1> HIDE DEF f
<1>6. /\ Tags(f) /\ BlocksOf(f) = BlocksOf(c) /\ FreeOf(f) = FreeOf(c)
      /\ \A a \in Dom(c) : gca_next(f, a) = gca_next(c, a)
  BY <1>3, <1>5, LinksTags
<1>7. \A a \in Dom(c) : f.mem[a].curr = c.mem[a].curr
  BY <1>5 DEF LinksOnly
<1>8. /\ b \in BlocksOf(f) /\ b \in Dom(f) /\ gca_next(f, b) \in Dom(f) /\ gca_next(f, b) # b
      /\ Dom(f) = Dom(c) /\ BlocksOf(c) \subseteq Dom(c)
  <2>1. b \in BlocksOf(f)
    BY <1>2, <1>6
  <2>2. b \in Nat /\ b < gca_next(f, b) /\ b \in Dom(f) /\ gca_next(f, b) \in Dom(f)
    BY <1>6, <2>1, NextIs
  <2>3. gca_next(f, b) # b
    BY <2>2
  <2> QED
    BY <1>5, <2>1, <2>2, <2>3 DEF LinksOnly, BlocksOf
<1>9. HeapType(g) /\ Flagged(f, g, b, Info(f.mem[b].curr.size, TRUE))
  <2>1. f.mem[gca_next(f, b)].prev = f.mem[b].curr
    BY <1>6, <1>8 DEF Tags, Chained
  <2> QED
    BY <1>5, <1>8, <2>1, MarkedIs
<1> HIDE DEF g
<1>10. /\ Tags(g) /\ BlocksOf(g) = BlocksOf(f)
       /\ FreeOf(g) = FreeOf(f) \ {b} /\ UsedOf(g) = UsedOf(f) \cup {b}
       /\ \A a \in Dom(f) : gca_next(g, a) = gca_next(f, a) /\ g.mem[a].curr.size = f.mem[a].curr.size
  <2> DEFINE i == Info(f.mem[b].curr.size, TRUE)
  <2>1. i.size = f.mem[b].curr.size /\ i.used
    BY DEF Info
  <2> HIDE DEF i
  <2>2. Flagged(f, g, b, i)
    BY <1>9 DEF i
  <2> QED
    BY <1>6, <1>8, <1>9, <2>1, <2>2, FlaggedTags
<1>11. FreeOf(g) = FreeOf(c) \ {b} /\ UsedOf(g) = UsedOf(h) \cup {b}
  BY <1>2, <1>6, <1>10 DEF UsedOf
<1>12. WF(g)
  <2>1. PICK z, l : Listed(f, FreeOf(g), z, l)
    BY <1>5, <1>11 DEF IsListed
  <2>2. FreeOf(g) \subseteq Dom(g) /\ b \notin FreeOf(g) /\ FreeOf(g) \subseteq Dom(f)
    BY <1>8, <1>10, <1>11 DEF FreeOf, BlocksOf
  <2>3. /\ g.free_list = f.free_list
        /\ \A n \in FreeOf(g) : /\ g.mem[n].prev_free = f.mem[n].prev_free
                                /\ g.mem[n].next_free = f.mem[n].next_free
    BY <1>9, <2>2 DEF Flagged
  <2>4. Listed(g, FreeOf(g), z, l)
    BY <2>1, <2>2, <2>3, ListedSame
  <2> QED
    BY <1>10, <2>4 DEF WF, IsListed
<1>13. Apart(g, {})
  <2>1. ASSUME NEW a \in FreeOf(g) PROVE gca_next(g, a) \notin FreeOf(g)
    <3>1. a \in FreeOf(c) \ {b} /\ a \in Dom(c)
      BY <1>8, <1>11 DEF FreeOf
    <3>2. gca_next(g, a) = gca_next(c, a) /\ gca_next(c, a) \notin FreeOf(c)
      BY <1>2, <1>6, <1>8, <1>10, <3>1 DEF Apart
    <3> QED
      BY <1>11, <3>2
  <2> QED
    BY <2>1 DEF Apart
<1>14. g.mem[b].curr.size >= size
  BY <1>2, <1>7, <1>8, <1>10
<1>15. ASSUME NEW a \in UsedOf(h) PROVE g.mem[a].curr = h.mem[a].curr
  <2>1. a # b /\ a \in Dom(c)
    BY <1>1, <1>2, <1>8 DEF UsedOf
  <2>2. g.mem[a].curr = f.mem[a].curr
    BY <1>8, <1>9, <2>1 DEF Flagged
  <2> QED
    BY <1>2, <1>7, <2>1, <2>2
<1> QED
  BY <1>11, <1>12, <1>13, <1>14, <1>15 DEF g, f, c

\* A request that is not refused; near SIZE_MAX its page would wrap.
Fine(n) == n \in 0 .. SIZE_MAX /\ (aligned(n) # 0 => page_size(aligned(n)) # 0)

LEMMA MallocKeeps ==
    ASSUME NEW h, WF(h), Apart(h, {}), NEW n, Fine(n)
    PROVE  LET m == gca_malloc(h, n)
           IN  /\ WF(m.h) /\ Apart(m.h, {})
               /\ \A a \in UsedOf(h) : m.h.mem[a].curr = h.mem[a].curr
               /\ \/ m.ptr = NULL /\ m.h = h /\ UsedOf(m.h) = UsedOf(h)
                  \/ \E b \in UsedOf(m.h) \ UsedOf(h) :
                        /\ m.ptr = gca_header_to_data(b) /\ m.ptr # NULL
                        /\ UsedOf(m.h) = UsedOf(h) \cup {b} /\ m.h.mem[b].curr.size >= n
<1> DEFINE m == gca_malloc(h, n)
           size == aligned(n)
           found == gca_find_free_block(h, size)
           r == FromList(h, found, size)
<1>1. CASE size = 0
  <2>1. m = [h |-> h, ptr |-> NULL]
    BY <1>1 DEF gca_malloc
  <2> QED
    BY <2>1
<1>2. CASE size # 0
  <2>1. /\ n \in Nat /\ size \in Nat /\ size % GCA_DATA_ALIGN = 0 /\ size < 2 ^ SizeBits
        /\ size >= GCA_DATA_ALIGN /\ size >= n /\ page_size(size) # 0
    BY <1>2, AlignedIs DEF Fine
  <2>2. /\ page_size(size) \in Nat /\ page_size(size) % GCA_DATA_ALIGN = 0
        /\ page_size(size) >= size + GCA_INFO_SIZE
    <3>1. size <= size
      BY <2>1
    <3> QED
      BY <2>1, <3>1, PageIs
  <2>3. m = Taken(r, size)
    BY <1>2 DEF gca_malloc
  <2> HIDE DEF m, size
  <2>4. \/ found = NULL
        \/ found \in FreeOf(h) /\ h.mem[found].curr.size >= size
    <3>1. PICK s, len : Listed(h, FreeOf(h), s, len)
      BY DEF WF, IsListed
    <3>2. HeapType(h) /\ IsFiniteSet(Dom(h))
      BY TagsFinite DEF WF, Tags
    <3> QED
      BY <2>1, <3>1, <3>2, FindIs
  <2>5. NULL \notin Nat /\ FreeOf(h) \subseteq Nat
    BY DEF WF, Tags, HeapType, FreeOf, BlocksOf, NULL
  <2> HIDE DEF found
  <2>6. \/ r.block = NULL /\ r.h = h
        \/ /\ WF(r.h) /\ Apart(r.h, {}) /\ KeepsUsed(h, r.h)
           /\ r.block \in FreeOf(r.h) /\ r.h.mem[r.block].curr.size >= size
    <3>1. CASE found # NULL
      <4>1. r = [h |-> h, block |-> found]
        BY <3>1 DEF FromList
      <4>2. r.h = h /\ r.block = found
        BY <4>1
      <4>3. KeepsUsed(h, h)
        BY DEF KeepsUsed
      <4> HIDE DEF r
      <4> QED
        BY <2>4, <3>1, <4>2, <4>3
    <3>2. CASE found = NULL
      <4>1. r = gca_sbrk_new_block(h, size)
        BY <3>2 DEF FromList
      <4> HIDE DEF r
      <4>2. CASE CanMove(h, page_size(size))
        BY <2>1, <2>2, <4>1, <4>2, NewBlockKeeps
      <4>3. CASE ~CanMove(h, page_size(size))
        <5>1. r = [h |-> h, block |-> NULL]
          BY <4>1, <4>3 DEF gca_sbrk_new_block
        <5> QED
          BY <5>1
      <4> QED
        BY <4>2, <4>3
    <3> QED
      BY <3>1, <3>2
  <2> HIDE DEF r
  <2>7. CASE r.block = NULL /\ r.h = h
    <3>1. m = [h |-> h, ptr |-> NULL]
      BY <2>3, <2>7 DEF Taken
    <3>2. m.h = h /\ m.ptr = NULL
      BY <3>1
    <3> QED
      BY <3>2 DEF m
  <2>8. CASE /\ WF(r.h) /\ Apart(r.h, {}) /\ KeepsUsed(h, r.h)
             /\ r.block \in FreeOf(r.h) /\ r.h.mem[r.block].curr.size >= size
    <3> DEFINE b == r.block
               g == Marked(gca_remove_free_list(gca_split_block(r.h, b, size), b), b)
    <3>1. b \in Nat /\ b # NULL /\ b \in Dom(r.h) /\ r.h.mem[b].curr.size \in Nat
      <4>1. HeapType(r.h) /\ b \in Dom(r.h)
        BY <2>8 DEF WF, Tags, FreeOf, BlocksOf
      <4> QED
        BY <2>5, <4>1, HeaderTypes
    <3>2. m = [h |-> g, ptr |-> gca_header_to_data(b)]
      BY <2>3, <3>1 DEF Taken
    <3>3. m.h = g /\ m.ptr = gca_header_to_data(b)
      BY <3>2
    <3>4. b \in FreeOf(r.h) /\ size <= r.h.mem[b].curr.size
      BY <2>1, <2>8, <3>1
    <3> HIDE DEF b
    <3>5. /\ WF(g) /\ Apart(g, {}) /\ UsedOf(g) = UsedOf(r.h) \cup {b}
          /\ g.mem[b].curr.size >= size
          /\ \A a \in UsedOf(r.h) : g.mem[a].curr = r.h.mem[a].curr
      BY <2>1, <2>8, <3>4, TakenKeeps
    <3> HIDE DEF g
    <3>6. UsedOf(r.h) = UsedOf(h) /\ \A a \in UsedOf(h) : r.h.mem[a].curr = h.mem[a].curr
      BY <2>8 DEF KeepsUsed
    <3>7. b \notin UsedOf(h)
      BY <3>4, <3>6 DEF UsedOf
    <3>8. gca_header_to_data(b) # NULL
      BY <3>1 DEF gca_header_to_data, NULL, GCA_INFO_SIZE, Word
    <3>9. g.mem[b].curr.size >= n
      <4>1. g.mem[b].curr.size \in Nat
        <5>1. HeapType(g) /\ b \in Dom(g)
          BY <3>5 DEF WF, Tags, UsedOf, BlocksOf
        <5> QED
          BY <5>1, HeaderTypes
      <4> QED
        BY <2>1, <3>5, <4>1
    <3> QED
      BY <3>3, <3>5, <3>6, <3>7, <3>8, <3>9 DEF m
  <2> QED
    BY <2>6, <2>7, <2>8
<1> QED
  BY <1>1, <1>2

LEMMA FreeKeeps ==
    ASSUME NEW h, WF(h), Apart(h, {}), NEW b \in UsedOf(h)
    PROVE  LET g == gca_free(h, b)
           IN  /\ WF(g) /\ Apart(g, {}) /\ UsedOf(g) = UsedOf(h) \ {b}
               /\ \A a \in UsedOf(h) \ {b} : g.mem[a].curr = h.mem[a].curr
<1> DEFINE w == Unmarked(h, b)
           f == gca_add_free_list(w, b)
           c == gca_coalesce_next(f, b)
           g == gca_coalesce_prev(c, b)
<1>1. gca_free(h, b) = g
  BY DEF gca_free, gca_coalesce
<1>2. /\ Tags(h) /\ HeapType(h) /\ b \in BlocksOf(h) /\ b \in Dom(h) /\ b \notin FreeOf(h)
      /\ gca_next(h, b) \in Dom(h) /\ gca_next(h, b) # b
  <2>1. Tags(h) /\ HeapType(h) /\ b \in BlocksOf(h) /\ b \in Dom(h) /\ b \notin FreeOf(h)
    BY DEF WF, Tags, UsedOf, BlocksOf
  <2>2. b \in Nat /\ b < gca_next(h, b) /\ gca_next(h, b) \in Dom(h)
    BY <2>1, NextIs
  <2>3. gca_next(h, b) # b
    BY <2>2
  <2> QED
    BY <2>1, <2>2, <2>3
<1> DEFINE i == Info(h.mem[b].curr.size, FALSE)
<1>3. HeapType(w) /\ Flagged(h, w, b, i)
  <2>1. h.mem[gca_next(h, b)].prev = h.mem[b].curr
    BY <1>2 DEF Tags, Chained
  <2> QED
    BY <1>2, <2>1, UnmarkedIs
<1> HIDE DEF w, f, c, g
<1>4. /\ Tags(w) /\ BlocksOf(w) = BlocksOf(h) /\ Dom(w) = Dom(h)
      /\ FreeOf(w) = FreeOf(h) \cup {b} /\ UsedOf(w) = UsedOf(h) \ {b}
      /\ \A a \in Dom(h) : gca_next(w, a) = gca_next(h, a)
  <2>1. i.size = h.mem[b].curr.size /\ ~i.used
    BY DEF Info
  <2> HIDE DEF i
  <2>2. Dom(w) = Dom(h)
    BY <1>3 DEF Flagged
  <2> QED
    BY <1>2, <1>3, <2>1, <2>2, FlaggedTags
<1>5. IsListed(w, FreeOf(h))
  <2>1. PICK z, l : Listed(h, FreeOf(h), z, l)
    BY DEF WF, IsListed
  <2>2. FreeOf(h) \subseteq Dom(h)
    BY DEF FreeOf, BlocksOf
  <2>3. /\ w.free_list = h.free_list
        /\ \A n \in FreeOf(h) : /\ w.mem[n].prev_free = h.mem[n].prev_free
                                /\ w.mem[n].next_free = h.mem[n].next_free
    BY <1>2, <1>3, <2>2 DEF Flagged
  <2>4. Listed(w, FreeOf(h), z, l)
    BY <1>4, <2>1, <2>2, <2>3, ListedSame
  <2> QED
    BY <2>4 DEF IsListed
<1>6. /\ WF(f) /\ BlocksOf(f) = BlocksOf(w) /\ FreeOf(f) = FreeOf(w) /\ UsedOf(f) = UsedOf(w)
      /\ \A a \in Dom(w) : gca_next(f, a) = gca_next(w, a) /\ f.mem[a].curr = w.mem[a].curr
  BY <1>2, <1>4, <1>5, AddWF DEF f
<1>7. Tags(f) /\ b \in BlocksOf(f) /\ b \in FreeOf(f)
  BY <1>2, <1>4, <1>6 DEF WF
<1> DEFINE n == gca_next(f, b)
           X == {a \in FreeOf(f) : a = b \/ gca_next(f, a) = b}
<1>8. n \notin X /\ n # b
  <2>1. b \in Nat /\ b < n
    BY <1>7, NextIs
  <2>2. ASSUME n \in X PROVE n \in Nat /\ n < b
    <3>1. n \in BlocksOf(f) /\ gca_next(f, n) = b
      BY <2>1, <2>2 DEF FreeOf
    <3> QED
      BY <1>7, <3>1, NextIs
  <2>3. n # b
    BY <2>1
  <2> QED
    BY <2>1, <2>2, <2>3
<1>9. Apart(f, X)
  <2>1. ASSUME NEW a \in FreeOf(f) \ X PROVE gca_next(f, a) \notin FreeOf(f)
    <3>1. a \in FreeOf(h) /\ a \in Dom(h) /\ gca_next(f, a) # b
      BY <1>4, <1>6 DEF FreeOf, BlocksOf
    <3>2. gca_next(f, a) = gca_next(h, a) /\ gca_next(h, a) \notin FreeOf(h)
      BY <1>4, <1>6, <3>1 DEF Apart
    <3> QED
      BY <1>4, <1>6, <3>1, <3>2
  <2> QED
    BY <2>1 DEF Apart
<1>10. WF(c) /\ Grown(f, c, b) /\ Apart(c, X \ {b})
  BY <1>6, <1>7, <1>8, <1>9, CoalesceNextKeeps DEF c
<1>11. b \in FreeOf(c) /\ UsedOf(c) = UsedOf(f)
  BY <1>7, <1>10, UsedIs DEF Grown, FreeOf
<1>12. \A a \in BlocksOf(c) \ {b} : c.mem[a].curr = f.mem[a].curr /\ gca_next(c, a) = gca_next(f, a)
  BY <1>10 DEF Grown, gca_next
<1>13. ApartBut(c, b)
  <2>1. ASSUME NEW a \in FreeOf(c), gca_next(c, a) # b PROVE gca_next(c, a) \notin FreeOf(c)
    <3>1. a \notin X \ {b}
      <4>1. CASE a = b
        BY <4>1
      <4>2. CASE a # b
        <5>1. gca_next(c, a) = gca_next(f, a)
          BY <1>12, <4>2 DEF FreeOf
        <5> QED
          BY <2>1, <4>2, <5>1
      <4> QED
        BY <4>1, <4>2
    <3> QED
      BY <1>10, <3>1 DEF Apart
  <2> QED
    BY <2>1 DEF ApartBut
<1>14. WF(g) /\ Apart(g, {}) /\ KeepsUsed(c, g)
  BY <1>10, <1>11, <1>13, CoalescePrevKeeps DEF g
<1>15. UsedOf(g) = UsedOf(h) \ {b}
  BY <1>4, <1>6, <1>11, <1>14 DEF KeepsUsed
<1>16. ASSUME NEW a \in UsedOf(h) \ {b} PROVE g.mem[a].curr = h.mem[a].curr
  <2>1. a \in UsedOf(c) /\ a \in BlocksOf(c) /\ a \in Dom(h) /\ a # b
    BY <1>4, <1>6, <1>11 DEF UsedOf, BlocksOf
  <2>2. g.mem[a].curr = c.mem[a].curr /\ c.mem[a].curr = f.mem[a].curr
    BY <1>12, <1>14, <2>1 DEF KeepsUsed
  <2>3. f.mem[a].curr = w.mem[a].curr /\ w.mem[a].curr = h.mem[a].curr
    BY <1>3, <1>4, <1>6, <2>1 DEF Flagged
  <2> QED
    BY <2>2, <2>3
<1> QED
  BY <1>1, <1>14, <1>15, <1>16

-----------------------------------------------------------------------------
(* The inductive invariant                                                 *)

HeapInv(h) == WF(h) /\ Apart(h, {})

\* What l says the clients hold is what is in use.
Held(h, l) ==
    /\ \A p \in DOMAIN l : /\ p \in Int /\ l[p] \in Nat /\ gca_data_to_header(p) \in UsedOf(h)
                           /\ l[p] <= h.mem[gca_data_to_header(p)].curr.size
    /\ \A b \in UsedOf(h) : gca_header_to_data(b) \in DOMAIN l

IInv ==
    \/ heap = NoHeap /\ live = [p \in {} |-> NULL]
    \/ HeapInv(heap) /\ Held(heap, live)

LEMMA UsedTypes ==
    ASSUME NEW h, HeapInv(h), NEW b \in UsedOf(h)
    PROVE  /\ Tags(h) /\ b \in BlocksOf(h) /\ b \in Nat /\ h.mem[b].curr.size \in Nat
           /\ h.mem[b].curr.used
<1>1. Tags(h) /\ HeapType(h) /\ b \in BlocksOf(h) /\ b \in Dom(h) /\ h.mem[b].curr.used
  BY DEF HeapInv, WF, Tags, UsedOf, BlocksOf, FreeOf
<1> QED
  BY <1>1, HeaderTypes

LEMMA InverseIs ==
    ASSUME NEW p \in Int
    PROVE  /\ gca_data_to_header(p) \in Int /\ gca_header_to_data(p) \in Int
           /\ gca_header_to_data(gca_data_to_header(p)) = p
           /\ gca_data_to_header(gca_header_to_data(p)) = p
BY DEF gca_data_to_header, gca_header_to_data, GCA_INFO_SIZE, Word

LEMMA HeldGrown ==
    ASSUME NEW h, NEW g, NEW l, HeapInv(h), HeapInv(g), Held(h, l), UsedOf(g) = UsedOf(h),
           \A a \in UsedOf(h) : g.mem[a].curr.size >= h.mem[a].curr.size
    PROVE  Held(g, l)
<1>1. ASSUME NEW p \in DOMAIN l PROVE l[p] <= g.mem[gca_data_to_header(p)].curr.size
  <2> DEFINE b == gca_data_to_header(p)
  <2>1. b \in UsedOf(h) /\ l[p] \in Nat /\ l[p] <= h.mem[b].curr.size
    BY DEF Held
  <2> HIDE DEF b
  <2>2. h.mem[b].curr.size \in Nat /\ g.mem[b].curr.size \in Nat /\ g.mem[b].curr.size >= h.mem[b].curr.size
    BY <2>1, UsedTypes
  <2>3. l[p] <= g.mem[b].curr.size
    BY <2>1, <2>2
  <2> QED
    BY <2>3 DEF b
<1> QED
  BY <1>1 DEF Held

\* The client gets b, or b with another size.
LEMMA HeldGiven ==
    ASSUME NEW h, NEW g, NEW l, NEW b \in Nat, NEW n \in Nat, Held(h, l),
           UsedOf(g) = UsedOf(h) \cup {b}, g.mem[b].curr.size >= n, g.mem[b].curr.size \in Nat,
           \A a \in UsedOf(h) \ {b} : g.mem[a].curr = h.mem[a].curr,
           NEW p, p = gca_header_to_data(b)
    PROVE  Held(g, [q \in DOMAIN l \cup {p} |-> IF q = p THEN n ELSE l[q]])
<1> DEFINE k == [q \in DOMAIN l \cup {p} |-> IF q = p THEN n ELSE l[q]]
<1>1. p \in Int /\ gca_data_to_header(p) = b
  BY InverseIs
<1>2. ASSUME NEW q \in DOMAIN k
      PROVE  /\ q \in Int /\ k[q] \in Nat /\ gca_data_to_header(q) \in UsedOf(g)
             /\ k[q] <= g.mem[gca_data_to_header(q)].curr.size
  <2>1. CASE q = p
    <3>1. k[q] = n /\ n <= g.mem[b].curr.size
      BY <2>1
    <3> QED
      BY <1>1, <2>1, <3>1
  <2>2. CASE q # p
    <3>1. k[q] = l[q] /\ q \in DOMAIN l
      BY <2>2
    <3>2. /\ q \in Int /\ l[q] \in Nat /\ gca_data_to_header(q) \in UsedOf(h)
          /\ l[q] <= h.mem[gca_data_to_header(q)].curr.size
      BY <3>1 DEF Held
    <3>3. gca_data_to_header(q) # b
      BY <2>2, <3>2, InverseIs
    <3> HIDE DEF k
    <3> QED
      BY <3>1, <3>2, <3>3
  <2> QED
    BY <2>1, <2>2
<1>3. ASSUME NEW a \in UsedOf(g) PROVE gca_header_to_data(a) \in DOMAIN k
  BY DEF Held
<1> HIDE DEF k
<1>4. Held(g, k)
  BY <1>2, <1>3 DEF Held
<1> QED
  BY <1>4 DEF k

LEMMA HeldWithout ==
    ASSUME NEW h, NEW g, NEW l, NEW p \in DOMAIN l, NEW k, Held(h, l), HeapInv(h),
           UsedOf(g) = UsedOf(h) \ {gca_data_to_header(p)},
           \A a \in UsedOf(g) : g.mem[a].curr = h.mem[a].curr,
           DOMAIN k = DOMAIN l \ {p}, \A q \in DOMAIN k : k[q] = l[q]
    PROVE  Held(g, k)
<1> DEFINE b == gca_data_to_header(p)
<1>1. p \in Int
  BY DEF Held
<1>2. b \in Int /\ gca_header_to_data(b) = p
  BY <1>1, InverseIs
<1> HIDE DEF b
<1>3. ASSUME NEW q \in DOMAIN k
      PROVE  /\ q \in Int /\ k[q] \in Nat /\ gca_data_to_header(q) \in UsedOf(g)
             /\ k[q] <= g.mem[gca_data_to_header(q)].curr.size
  <2>1. /\ k[q] = l[q] /\ q \in Int /\ l[q] \in Nat /\ gca_data_to_header(q) \in UsedOf(h)
        /\ l[q] <= h.mem[gca_data_to_header(q)].curr.size /\ q # p
    BY DEF Held
  <2>2. gca_data_to_header(q) # b
    BY <1>2, <2>1, InverseIs
  <2>3. gca_data_to_header(q) \in UsedOf(g)
    BY <2>1, <2>2 DEF b
  <2> QED
    BY <2>1, <2>3
<1>4. ASSUME NEW a \in UsedOf(g) PROVE gca_header_to_data(a) \in DOMAIN k
  <2>1. a \in UsedOf(h) /\ a # b /\ gca_header_to_data(a) \in DOMAIN l
    BY DEF Held, b
  <2>2. a \in Int
    BY <2>1, UsedTypes
  <2>3. gca_header_to_data(a) # p
    BY <1>2, <2>1, <2>2, InverseIs
  <2> QED
    BY <2>1, <2>3
<1> QED
  BY <1>3, <1>4 DEF Held

-----------------------------------------------------------------------------
(* Every action keeps it                                                   *)

LEMMA ProductFits ==
    ASSUME NEW c \in Nat, NEW m \in Nat \ {0}, NEW M \in Nat, c <= M \div m
    PROVE  c * m \in Nat /\ c * m <= M
<1> DEFINE q == M \div m
           r == M % m
<1>1. q \in Nat /\ r \in Nat /\ M = m * q + r
  OBVIOUS
<1> HIDE DEF q, r
<1>2. c <= q
  BY DEF q
<1>3. PICK d \in Nat : q = c + d
  <2>1. q - c \in Nat /\ q = c + (q - c)
    BY <1>1, <1>2
  <2> QED
    BY <2>1
<1>4. c * m \in Nat /\ m * d \in Nat
  OBVIOUS
<1>5. m * q = c * m + m * d
  BY <1>3
<1> QED
  BY <1>1, <1>4, <1>5

LEMMA FineSizes ==
    /\ \A n \in Sizes : Fine(n)
    /\ \A c \in Counts, m \in Sizes : m # 0 /\ c <= SIZE_MAX \div m => Fine(c * m)
    /\ \A n \in GrowSizes : n # 0 => Fine(n) /\ aligned(n) # 0
<1>1. SIZE_MAX \in Nat
  BY WidthAssumption, PageAssumption DEF SIZE_MAX, GCA_INFO_SIZE, GCA_DATA_ALIGN, Word
<1>2. ASSUME NEW n \in Sizes PROVE Fine(n)
  BY SizesAssumption, NoWrapAssumption DEF Fine
<1>3. ASSUME NEW n \in GrowSizes, n # 0 PROVE Fine(n) /\ aligned(n) # 0
  BY <1>3, SizesAssumption, NoWrapAssumption DEF Fine
<1>4. ASSUME NEW c \in Counts, NEW m \in Sizes, m # 0, c <= SIZE_MAX \div m PROVE Fine(c * m)
  <2>1. c \in Nat /\ m \in Nat \ {0}
    BY <1>1, <1>4, SizesAssumption
  <2> DEFINE n == c * m
  <2>2. n \in Nat /\ n <= SIZE_MAX
    BY <1>1, <1>4, <2>1, ProductFits
  <2>3. n \in {k * j : k \in Counts, j \in Sizes}
    OBVIOUS
  <2> HIDE DEF n
  <2>4. page_size(aligned(n)) # 0
    BY <2>2, <2>3, NoWrapAssumption
  <2>5. n \in 0 .. SIZE_MAX
    BY <1>1, <2>2
  <2>6. Fine(n)
    BY <2>4, <2>5 DEF Fine
  <2> QED
    BY <2>6 DEF n
<1> QED
  BY <1>2, <1>3, <1>4

LEMMA CreatedIs ==
    ASSUME IInv
    PROVE  /\ Created => HeapInv(heap) /\ Held(heap, live)
           /\ ~Created => heap = NoHeap /\ live = [p \in {} |-> NULL]
           /\ \A p \in DOMAIN live : HeapInv(heap) /\ Held(heap, live)
<1>1. CASE heap = NoHeap /\ live = [p \in {} |-> NULL]
  <2>1. ~Created /\ DOMAIN live = {}
    BY <1>1 DEF NoHeap, Created
  <2> QED
    BY <1>1, <2>1
<1>2. CASE HeapInv(heap) /\ Held(heap, live)
  <2>1. 0 \in Dom(heap)
    BY <1>2 DEF HeapInv, WF, Tags, Ends, BlocksOf
  <2>2. Created
    BY <2>1 DEF Created, Dom
  <2> QED
    BY <1>2, <2>2
<1> QED
  BY <1>1, <1>2 DEF IInv

LEMMA CreateStep ==
    ASSUME IInv, NEW heapSize \in HeapSizes, CreateHeap(heapSize)
    PROVE  IInv'
<1> DEFINE A == GCA_SBRK_ALIGN
           bottom == Info(A - 2 * GCA_INFO_SIZE, FALSE)
           top == A - GCA_INFO_SIZE
           last == Info(0, TRUE)
           lo == Header(last, bottom)
           hi == Header(bottom, last)
           mem == [a \in {0, top} |-> IF a = 0 THEN lo ELSE hi]
           h == [mem |-> mem, free_list |-> NULL, current_brk |-> A, heap_size |-> heapSize]
<1>1. heap' = gca_add_free_list(h, 0) /\ live' = live /\ live = [p \in {} |-> NULL]
  BY CreatedIs DEF CreateHeap
<1>2. /\ A \in Nat /\ A >= 48 /\ A % 16 = 0 /\ heapSize \in Nat /\ top \in Nat /\ top = A - 16 /\ top >= 32
      /\ A - 2 * GCA_INFO_SIZE = top - 16 /\ top - 16 \in Nat /\ NULL \in Int /\ top % 16 = 0
  <2>1. 2 ^ SizeBits \in Nat
    BY WidthAssumption
  <2> QED
    BY <2>1, PageAssumption, SizesAssumption DEF GCA_INFO_SIZE, GCA_DATA_ALIGN, Word, SIZE_MAX, NULL
<1> HIDE DEF A, top
<1>3. /\ bottom \in InfoT /\ last \in InfoT /\ bottom.size = top - 16 /\ bottom.used = FALSE
      /\ last.used = TRUE
  BY <1>2 DEF Info, InfoT
<1>4. last = Info(0, TRUE)
  OBVIOUS
<1> HIDE DEF bottom, last
<1>5. /\ lo \in HeaderT /\ hi \in HeaderT /\ lo.prev = last /\ lo.curr = bottom
      /\ hi.prev = bottom /\ hi.curr = last
  BY <1>2, <1>3 DEF Header, HeaderT
<1> HIDE DEF lo, hi
<1>6. mem \in [{0, top} -> HeaderT] /\ mem[0] = lo /\ mem[top] = hi
  BY <1>2, <1>5
<1> HIDE DEF mem
<1>7. h.mem = mem /\ h.free_list = NULL /\ h.current_brk = A /\ h \in Heaps({0, top})
  BY <1>2, <1>6 DEF Heaps
<1> HIDE DEF h
<1>8. Dom(h) = {0, top} /\ Top(h) = top
  <2>1. Dom(h) = {0, top}
    BY <1>6, <1>7 DEF Dom
  <2>2. Top(h) = top
    BY <1>2, <1>7 DEF Top, gca_data_to_header, GCA_INFO_SIZE, Word
  <2> QED
    BY <2>1, <2>2
<1>9. HeapType(h)
  BY <1>2, <1>7, <1>8 DEF HeapType
<1>10. BlocksOf(h) = {0} /\ FreeOf(h) = {0} /\ UsedOf(h) = {}
  <2>1. BlocksOf(h) = {0}
    BY <1>2, <1>8 DEF BlocksOf
  <2>2. ~h.mem[0].curr.used
    BY <1>3, <1>5, <1>6, <1>7
  <2> QED
    BY <2>1, <2>2 DEF FreeOf, UsedOf
<1>11. gca_next(h, 0) = top
  <2>1. gca_next(h, 0) = 0 + GCA_INFO_SIZE + h.mem[0].curr.size
    BY <1>8, <1>9, HeaderTypes
  <2>2. h.mem[0].curr.size = top - 16
    BY <1>3, <1>5, <1>6, <1>7
  <2> QED
    BY <1>2, <2>1, <2>2 DEF GCA_INFO_SIZE, Word
<1>12. Tags(h)
  <2>1. h.mem[0].curr = bottom /\ h.mem[top].prev = bottom /\ h.mem[top].curr = last /\ h.mem[0].prev = last
    BY <1>5, <1>6, <1>7
  <2>2. Ends(h)
    <3>1. \A a \in Dom(h) : a <= top
      BY <1>2, <1>8
    <3> QED
      BY <1>3, <1>4, <1>8, <1>10, <2>1, <3>1 DEF Ends
  <2>3. Aligned(h)
    BY <1>2, <1>8 DEF Aligned, GCA_DATA_ALIGN, Word
  <2>4. Chained(h, 0)
    <3>1. bottom.size >= GCA_DATA_ALIGN
      BY <1>2, <1>3 DEF GCA_DATA_ALIGN, Word
    <3>2. \A a \in Dom(h) : a <= 0 \/ top <= a
      BY <1>2, <1>8
    <3> QED
      BY <1>8, <1>11, <2>1, <3>1, <3>2 DEF Chained
  <2> QED
    BY <1>8, <1>9, <1>10, <1>11, <2>2, <2>3, <2>4 DEF Tags
<1>13. IsListed(h, {})
  <2> DEFINE s == [i \in 1 .. 0 |-> i]
  <2>1. s \in [1 .. 0 -> {}]
    OBVIOUS
  <2>2. Listed(h, {}, s, 0)
    BY <1>7, <2>1 DEF Listed
  <2> QED
    BY <2>2 DEF IsListed
<1>14. WF(heap') /\ FreeOf(heap') = FreeOf(h) /\ UsedOf(heap') = UsedOf(h)
       /\ gca_next(heap', 0) = gca_next(h, 0)
  BY <1>1, <1>8, <1>10, <1>12, <1>13, AddWF
<1>15. Apart(heap', {})
  BY <1>2, <1>10, <1>11, <1>14 DEF Apart
<1>16. Held(heap', live')
  BY <1>1, <1>10, <1>14 DEF Held
<1>17. HeapInv(heap') /\ Held(heap', live')
  BY <1>14, <1>15, <1>16 DEF HeapInv
<1> QED
  BY <1>17 DEF IInv

LEMMA TakesStep ==
    ASSUME HeapInv(heap), Held(heap, live), NEW n, Fine(n), Takes(gca_malloc(heap, n), n)
    PROVE  IInv'
<1> DEFINE m == gca_malloc(heap, n)
           g == m.h
<1>1. /\ WF(g) /\ Apart(g, {})
      /\ \A a \in UsedOf(heap) : g.mem[a].curr = heap.mem[a].curr
      /\ \/ m.ptr = NULL /\ UsedOf(g) = UsedOf(heap)
         \/ \E b \in UsedOf(g) \ UsedOf(heap) :
               /\ m.ptr = gca_header_to_data(b) /\ m.ptr # NULL
               /\ UsedOf(g) = UsedOf(heap) \cup {b} /\ g.mem[b].curr.size >= n
  BY MallocKeeps DEF HeapInv
<1>2. heap' = g /\ live' = IF m.ptr = NULL THEN live ELSE Given(m.ptr, n)
  BY DEF Takes
<1> HIDE DEF m
<1>3. HeapInv(g) /\ n \in Nat
  BY <1>1 DEF HeapInv, Fine
<1> HIDE DEF g
<1>4. CASE m.ptr = NULL /\ UsedOf(g) = UsedOf(heap)
  <2>1. \A a \in UsedOf(heap) : g.mem[a].curr.size >= heap.mem[a].curr.size
    <3>1. \A a \in UsedOf(heap) : g.mem[a].curr = heap.mem[a].curr /\ heap.mem[a].curr.size \in Nat
      BY <1>1, UsedTypes
    <3> QED
      BY <3>1
  <2>2. Held(g, live)
    BY <1>3, <1>4, <2>1, HeldGrown
  <2> QED
    BY <1>2, <1>3, <1>4, <2>2 DEF IInv
<1>5. ASSUME NEW b \in UsedOf(g) \ UsedOf(heap), m.ptr = gca_header_to_data(b), m.ptr # NULL,
             UsedOf(g) = UsedOf(heap) \cup {b}, g.mem[b].curr.size >= n
      PROVE  IInv'
  <2>1. b \in Nat /\ g.mem[b].curr.size \in Nat
    BY <1>3, UsedTypes
  <2>2. Held(g, [q \in DOMAIN live \cup {m.ptr} |-> IF q = m.ptr THEN n ELSE live[q]])
    BY <1>1, <1>3, <1>5, <2>1, HeldGiven
  <2>3. live' = [q \in DOMAIN live \cup {m.ptr} |-> IF q = m.ptr THEN n ELSE live[q]]
    BY <1>2, <1>5 DEF Given
  <2> QED
    BY <1>2, <1>3, <2>2, <2>3 DEF IInv
<1> QED
  BY <1>1, <1>4, <1>5

LEMMA FreeStep ==
    ASSUME IInv, NEW p \in DOMAIN live, Free(p)
    PROVE  IInv'
<1> DEFINE b == gca_data_to_header(p)
<1>1. HeapInv(heap) /\ Held(heap, live) /\ WF(heap) /\ Apart(heap, {})
  BY CreatedIs DEF HeapInv
<1>2. b \in UsedOf(heap)
  BY <1>1 DEF Held
<1>3. heap' = gca_free(heap, b) /\ live' = Without(p)
  BY DEF Free
<1> HIDE DEF b
<1>4. /\ WF(heap') /\ Apart(heap', {}) /\ UsedOf(heap') = UsedOf(heap) \ {b}
      /\ \A a \in UsedOf(heap) \ {b} : (heap').mem[a].curr = heap.mem[a].curr
  BY <1>1, <1>2, <1>3, FreeKeeps
<1>5. DOMAIN (live') = DOMAIN live \ {p} /\ \A q \in DOMAIN (live') : (live')[q] = live[q]
  BY <1>3 DEF Without
<1>6. Held(heap', live')
  <2>1. ASSUME NEW g, NEW k, UsedOf(g) = UsedOf(heap) \ {b},
               \A a \in UsedOf(heap) \ {b} : g.mem[a].curr = heap.mem[a].curr,
               DOMAIN k = DOMAIN live \ {p}, \A q \in DOMAIN k : k[q] = live[q]
        PROVE  Held(g, k)
    <3>1. UsedOf(g) = UsedOf(heap) \ {gca_data_to_header(p)}
      BY <2>1 DEF b
    <3>2. \A a \in UsedOf(g) : g.mem[a].curr = heap.mem[a].curr
      BY <2>1
    <3>3. Held(heap, live) /\ HeapInv(heap)
      BY <1>1
    <3> HIDE DEF b
    <3> QED
      BY <2>1, <3>1, <3>2, <3>3, HeldWithout, ZenonT(40)
  <2> QED
    BY <1>4, <1>5, <2>1
<1> QED
  BY <1>4, <1>6 DEF IInv, HeapInv

\* The client keeps a block that is split down to what it asks for.
LEMMA InPlaceStep ==
    ASSUME NEW p \in DOMAIN live, Held(heap, live), NEW g, NEW n \in Nat, NEW size \in Nat,
           HeapInv(g), UsedOf(g) = UsedOf(heap),
           \A a \in UsedOf(heap) \ {gca_data_to_header(p)} : g.mem[a].curr = heap.mem[a].curr,
           size % GCA_DATA_ALIGN = 0, size >= GCA_DATA_ALIGN, size >= n,
           size <= g.mem[gca_data_to_header(p)].curr.size,
           heap' = gca_split_block(g, gca_data_to_header(p), size), live' = Given(p, n)
    PROVE  IInv'
<1> DEFINE b == gca_data_to_header(p)
           f == gca_split_block(g, b, size)
<1>1. b \in UsedOf(heap) /\ p \in Int
  BY DEF Held
<1>2. b \in UsedOf(g)
  BY <1>1
<1>3. p = gca_header_to_data(b)
  BY <1>1, InverseIs
<1> HIDE DEF b
<1>4. b \in BlocksOf(g) /\ b \in Nat /\ g.mem[b].curr.used /\ WF(g) /\ Apart(g, {}) /\ size <= g.mem[b].curr.size
  <2>1. b \in BlocksOf(g) /\ b \in Nat /\ g.mem[b].curr.used
    BY <1>2, UsedTypes
  <2> QED
    BY <2>1 DEF HeapInv, b
<1>5. /\ WF(f) /\ Apart(f, {b}) /\ UsedOf(f) = UsedOf(g)
      /\ b \in BlocksOf(f) /\ f.mem[b].curr.used = g.mem[b].curr.used
      /\ f.mem[b].curr.size >= size
      /\ \A a \in UsedOf(g) \ {b} : f.mem[a].curr = g.mem[a].curr
  BY <1>4, SplitKeeps
<1> HIDE DEF f
<1>6. HeapInv(f)
  <2>1. b \notin FreeOf(f)
    BY <1>2, <1>5 DEF UsedOf
  <2>2. Apart(f, {})
    BY <1>5, <2>1 DEF Apart
  <2> QED
    BY <1>5, <2>2 DEF HeapInv
<1>7. f.mem[b].curr.size \in Nat /\ f.mem[b].curr.size >= n
  <2>1. f.mem[b].curr.size \in Nat
    BY <1>2, <1>5, <1>6, UsedTypes
  <2> QED
    BY <1>5, <2>1
<1>8. UsedOf(f) = UsedOf(heap) \cup {b} /\ \A a \in UsedOf(heap) \ {b} : f.mem[a].curr = heap.mem[a].curr
  BY <1>1, <1>5 DEF b
<1>9. Held(f, [q \in DOMAIN live \cup {p} |-> IF q = p THEN n ELSE live[q]])
  <2>1. /\ b \in Nat /\ f.mem[b].curr.size \in Nat /\ f.mem[b].curr.size >= n
        /\ UsedOf(f) = UsedOf(heap) \cup {b}
    BY <1>4, <1>7, <1>8
  <2>2. \A a \in UsedOf(heap) \ {b} : f.mem[a].curr = heap.mem[a].curr
    BY <1>8
  <2> QED
    BY <1>3, <2>1, <2>2, HeldGiven
<1>10. heap' = f /\ live' = [q \in DOMAIN live \cup {p} |-> IF q = p THEN n ELSE live[q]]
  BY DEF Given, f, b
<1> QED
  BY <1>6, <1>9, <1>10 DEF IInv

\* The block to be resized and the heap once it has absorbed its neighbour.
LEMMA GrownIs ==
    ASSUME HeapInv(heap), Held(heap, live), NEW p \in DOMAIN live
    PROVE  LET b == gca_data_to_header(p)
               g == gca_coalesce_next(heap, b)
           IN  /\ b \in UsedOf(heap) /\ HeapInv(g) /\ UsedOf(g) = UsedOf(heap)
               /\ g.mem[b].curr.size >= heap.mem[b].curr.size
               /\ \A a \in UsedOf(heap) \ {b} : g.mem[a].curr = heap.mem[a].curr
               /\ Held(g, live)
               /\ ~CoalescesNext(heap, b) => g = heap
<1> DEFINE b == gca_data_to_header(p)
           g == gca_coalesce_next(heap, b)
<1>1. b \in UsedOf(heap)
  BY DEF Held
<1> HIDE DEF b
<1>2. b \in BlocksOf(heap) /\ WF(heap) /\ Apart(heap, {}) /\ gca_next(heap, b) \notin {}
  BY <1>1, UsedTypes DEF HeapInv
<1>3. WF(g) /\ Grown(heap, g, b) /\ Apart(g, {} \ {b})
  BY <1>2, CoalesceNextKeeps
<1>4. ~CoalescesNext(heap, b) => g = heap
  BY DEF gca_coalesce_next
<1> HIDE DEF g
<1>5. {} \ {b} = {}
  OBVIOUS
<1>6. HeapInv(g)
  BY <1>3, <1>5 DEF HeapInv
<1>7. /\ UsedOf(g) = UsedOf(heap) /\ g.mem[b].curr.size >= heap.mem[b].curr.size
      /\ \A a \in UsedOf(heap) \ {b} : g.mem[a].curr = heap.mem[a].curr
  BY <1>3 DEF Grown, UsedOf
<1>8. \A a \in UsedOf(heap) : g.mem[a].curr.size >= heap.mem[a].curr.size
  <2>1. \A a \in UsedOf(heap) : heap.mem[a].curr.size \in Nat
    BY UsedTypes
  <2>2. ASSUME NEW a \in UsedOf(heap) PROVE g.mem[a].curr.size >= heap.mem[a].curr.size
    <3>1. CASE a = b
      BY <1>7, <3>1
    <3>2. CASE a # b
      BY <1>7, <2>1, <3>2
    <3> QED
      BY <3>1, <3>2
  <2> QED
    BY <2>2
<1>9. Held(g, live)
  BY <1>6, <1>7, <1>8, HeldGrown
<1> QED
  BY <1>1, <1>4, <1>6, <1>7, <1>9 DEF g, b

\* The block grows over the new memory behind it.
LEMMA ExtendedOver ==
    ASSUME NEW g, HeapInv(g), NEW b \in UsedOf(g), gca_is_sentinel(g, gca_next(g, b)),
           NEW size \in Nat, CanMove(g, page_size(size)),
           page_size(size) \in Nat, page_size(size) % GCA_DATA_ALIGN = 0,
           size >= GCA_DATA_ALIGN, page_size(size) >= size + GCA_INFO_SIZE
    PROVE  LET f == gca_coalesce_next(gca_sbrk_new_block(g, size).h, b)
           IN  /\ HeapInv(f) /\ UsedOf(f) = UsedOf(g)
               /\ f.mem[b].curr.size >= g.mem[b].curr.size + size
               /\ \A a \in UsedOf(g) \ {b} : f.mem[a].curr = g.mem[a].curr
<1> DEFINE r == gca_sbrk_new_block(g, size)
           e == r.h
           f == gca_coalesce_next(e, b)
           x == g.mem[b].curr.size
           y == e.mem[r.block].curr.size
<1>1. /\ Tags(g) /\ b \in BlocksOf(g) /\ b \in Nat /\ x \in Nat /\ g.mem[b].curr.used
      /\ WF(g) /\ Apart(g, {})
  BY UsedTypes DEF HeapInv
<1>2. gca_next(g, b) = Top(g)
  <2>1. gca_next(g, b) \in Dom(g) /\ g.mem[gca_next(g, b)].curr.size = 0
    BY <1>1, NextIs DEF gca_is_sentinel
  <2>2. \A a \in BlocksOf(g) : g.mem[a].curr.size >= 16
    BY <1>1 DEF Tags, Chained, GCA_DATA_ALIGN, Word
  <2>3. gca_next(g, b) \notin BlocksOf(g)
    BY <2>1, <2>2
  <2> QED
    BY <2>1, <2>3 DEF BlocksOf
<1>3. g.mem[Top(g)].prev.used
  BY <1>1, <1>2 DEF Tags, Chained
<1>4. /\ WF(e) /\ Apart(e, {}) /\ KeepsUsed(g, e)
      /\ r.block \in FreeOf(e) /\ e.mem[r.block].curr.size >= size
      /\ r.block = Top(g)
  BY <1>1, <1>3, NewBlockKeeps
<1> HIDE DEF r, e, x, y
<1>5. b \in UsedOf(e) /\ UsedOf(e) = UsedOf(g) /\ e.mem[b].curr = g.mem[b].curr
  BY <1>4 DEF KeepsUsed
<1>6. gca_next(e, b) = r.block
  BY <1>2, <1>4, <1>5 DEF gca_next
<1>7. CoalescesNext(e, b) /\ y \in Nat /\ b \in BlocksOf(e)
  <2>1. HeapType(e) /\ r.block \in Dom(e) /\ ~e.mem[r.block].curr.used /\ b \in BlocksOf(e)
    BY <1>4, <1>5 DEF WF, Tags, FreeOf, BlocksOf, UsedOf
  <2> QED
    BY <1>6, <2>1, HeaderTypes DEF CoalescesNext, y
<1>8. r.block \notin {}
  OBVIOUS
<1>9. /\ WF(f) /\ Grown(e, f, b) /\ Apart(f, {} \ {b})
      /\ f.mem[b].curr.size = e.mem[b].curr.size + GCA_INFO_SIZE + e.mem[r.block].curr.size
  BY <1>4, <1>6, <1>7, <1>8, CoalesceNextKeeps
<1> HIDE DEF f
<1>10. f.mem[b].curr.size = x + GCA_INFO_SIZE + y /\ y >= size
  BY <1>4, <1>5, <1>9 DEF x, y
<1>11. f.mem[b].curr.size >= x + size
  BY <1>1, <1>7, <1>10 DEF GCA_INFO_SIZE, Word
<1>12. HeapInv(f)
  <2>1. {} \ {b} = {}
    OBVIOUS
  <2> QED
    BY <1>9, <2>1 DEF HeapInv
<1>13. UsedOf(f) = UsedOf(g) /\ \A a \in UsedOf(g) \ {b} : f.mem[a].curr = g.mem[a].curr
  <2>1. UsedOf(f) = UsedOf(e) /\ UsedOf(f) \subseteq BlocksOf(f)
    BY <1>9 DEF Grown, UsedOf
  <2>2. \A a \in BlocksOf(f) \ {b} : f.mem[a].curr = e.mem[a].curr
    BY <1>9 DEF Grown
  <2> QED
    BY <1>4, <1>5, <2>1, <2>2 DEF KeepsUsed
<1> QED
  BY <1>11, <1>12, <1>13 DEF f, e, r, x

\* What is missing to a block is a request whose page does not wrap.
LEMMA MissingIs ==
    ASSUME NEW g, HeapInv(g), NEW b \in UsedOf(g), NEW n, Fine(n), aligned(n) # 0,
           aligned(n) > g.mem[b].curr.size
    PROVE  LET k == Missing(g, b, n)
           IN  /\ k \in Nat /\ k >= GCA_DATA_ALIGN /\ k + g.mem[b].curr.size = aligned(n)
               /\ page_size(k) \in Nat /\ page_size(k) % GCA_DATA_ALIGN = 0
               /\ page_size(k) >= k + GCA_INFO_SIZE
<1> DEFINE k == Missing(g, b, n)
           s == aligned(n)
           x == g.mem[b].curr.size
<1>1. s \in Nat /\ s % GCA_DATA_ALIGN = 0 /\ s < 2 ^ SizeBits /\ page_size(s) # 0
  BY AlignedIs DEF Fine
<1>2. x \in Nat /\ x % 16 = 0
  <2>1. Tags(g) /\ b \in BlocksOf(g) /\ b \in Nat /\ x \in Nat
    BY UsedTypes
  <2>2. gca_next(g, b) \in Dom(g) /\ b \in Dom(g) /\ HeapType(g)
    BY <2>1, NextIs DEF Tags
  <2> DEFINE e == gca_next(g, b)
  <2>3. e = b + GCA_INFO_SIZE + x
    BY <2>2, HeaderTypes
  <2> HIDE DEF x
  <2>4. e % 16 = 0 /\ b % 16 = 0
    BY <2>1, <2>2 DEF Tags, Aligned, GCA_DATA_ALIGN, Word
  <2> HIDE DEF e
  <2> QED
    BY <2>1, <2>3, <2>4 DEF GCA_INFO_SIZE, Word
<1>3. k = s - x /\ s > x
  BY DEF Missing
<1> HIDE DEF k, s, x
<1>4. k \in Nat /\ k >= 16 /\ k <= s /\ k + x = s
  BY <1>1, <1>2, <1>3 DEF GCA_DATA_ALIGN, Word
<1>5. /\ page_size(k) \in Nat /\ page_size(k) % GCA_DATA_ALIGN = 0
      /\ page_size(k) >= k + GCA_INFO_SIZE
  BY <1>1, <1>4, PageIs
<1> QED
  BY <1>4, <1>5 DEF k, s, x, GCA_DATA_ALIGN, Word

LEMMA MoveStep ==
    ASSUME HeapInv(heap), Held(heap, live), NEW p \in DOMAIN live, NEW n, Fine(n),
           ReallocMove(p, n, gca_data_to_header(p), gca_coalesce_next(heap, gca_data_to_header(p)))
    PROVE  IInv'
<1> DEFINE b == gca_data_to_header(p)
           g == gca_coalesce_next(heap, b)
           m == gca_malloc(g, n)
           f == m.h
<1>1. /\ b \in UsedOf(heap) /\ HeapInv(g) /\ UsedOf(g) = UsedOf(heap) /\ Held(g, live)
  BY GrownIs
<1>2. IF m.ptr = NULL
      THEN heap' = f /\ live' = live
      ELSE /\ heap' = gca_free(f, b)
           /\ live' = [q \in (DOMAIN live \ {p}) \cup {m.ptr} |-> IF q = m.ptr THEN n ELSE live[q]]
  BY DEF ReallocMove
<1> HIDE DEF g
<1>3. /\ WF(f) /\ Apart(f, {})
      /\ \A a \in UsedOf(g) : f.mem[a].curr = g.mem[a].curr
      /\ \/ m.ptr = NULL /\ UsedOf(f) = UsedOf(g)
         \/ \E c \in UsedOf(f) \ UsedOf(g) :
               /\ m.ptr = gca_header_to_data(c) /\ m.ptr # NULL
               /\ UsedOf(f) = UsedOf(g) \cup {c} /\ f.mem[c].curr.size >= n
  BY <1>1, MallocKeeps DEF HeapInv
<1> HIDE DEF m, b
<1>4. HeapInv(f) /\ n \in Nat
  BY <1>3 DEF HeapInv, Fine
<1> HIDE DEF f
<1>5. CASE m.ptr = NULL /\ UsedOf(f) = UsedOf(g)
  <2>1. \A a \in UsedOf(g) : f.mem[a].curr.size >= g.mem[a].curr.size
    <3>1. \A a \in UsedOf(g) : f.mem[a].curr = g.mem[a].curr /\ g.mem[a].curr.size \in Nat
      BY <1>1, <1>3, UsedTypes
    <3> QED
      BY <3>1
  <2>2. Held(f, live)
    BY <1>1, <1>4, <1>5, <2>1, HeldGrown
  <2> QED
    BY <1>2, <1>4, <1>5, <2>2 DEF IInv
<1>6. ASSUME NEW c \in UsedOf(f) \ UsedOf(g), m.ptr = gca_header_to_data(c), m.ptr # NULL,
             UsedOf(f) = UsedOf(g) \cup {c}, f.mem[c].curr.size >= n
      PROVE  IInv'
  <2> DEFINE q0 == m.ptr
             l == [q \in DOMAIN live \cup {q0} |-> IF q = q0 THEN n ELSE live[q]]
             k == [q \in (DOMAIN live \ {p}) \cup {q0} |-> IF q = q0 THEN n ELSE live[q]]
             e == gca_free(f, b)
  <2>1. c \in Nat /\ f.mem[c].curr.size \in Nat
    BY <1>4, UsedTypes
  <2>2. Held(f, l)
    BY <1>1, <1>3, <1>4, <1>6, <2>1, HeldGiven
  <2>3. b \in UsedOf(f) /\ b # c
    BY <1>1, <1>6
  <2>4. p # q0 /\ p \in DOMAIN l
    <3>1. p \in Int
      BY <1>1 DEF Held
    <3>2. b = gca_data_to_header(p) /\ c = gca_data_to_header(q0)
      BY <1>6, <2>1, InverseIs DEF b
    <3> QED
      BY <2>3, <3>2
  <2>5. /\ WF(e) /\ Apart(e, {}) /\ UsedOf(e) = UsedOf(f) \ {b}
        /\ \A a \in UsedOf(f) \ {b} : e.mem[a].curr = f.mem[a].curr
    BY <1>4, <2>3, FreeKeeps DEF HeapInv
  <2>6. DOMAIN k = DOMAIN l \ {p} /\ \A q \in DOMAIN k : k[q] = l[q]
    BY <2>4
  <2>7. heap' = e /\ live' = k
    BY <1>2, <1>6
  <2> HIDE DEF e, k, l
  <2>8. ASSUME NEW x, NEW y, UsedOf(x) = UsedOf(f) \ {b},
               \A a \in UsedOf(f) \ {b} : x.mem[a].curr = f.mem[a].curr,
               DOMAIN y = DOMAIN l \ {p}, \A q \in DOMAIN y : y[q] = l[q]
        PROVE  Held(x, y)
    <3>1. UsedOf(x) = UsedOf(f) \ {gca_data_to_header(p)}
      BY <2>8 DEF b
    <3>2. \A a \in UsedOf(x) : x.mem[a].curr = f.mem[a].curr
      BY <2>8
    <3>3. p \in DOMAIN l /\ HeapInv(f)
      BY <1>4, <2>4
    <3>4. DOMAIN y = DOMAIN l \ {p} /\ \A q \in DOMAIN y : y[q] = l[q]
      BY <2>8
    <3> HIDE DEF q0
    <3> QED
      BY <2>2, <3>1, <3>2, <3>3, <3>4, HeldWithout
  <2>9. Held(e, k)
    BY <2>5, <2>6, <2>8
  <2> QED
    BY <2>5, <2>7, <2>9 DEF IInv, HeapInv
<1> QED
  BY <1>3, <1>5, <1>6

LEMMA ReallocStep ==
    ASSUME IInv, NEW p \in DOMAIN live, NEW n \in GrowSizes \ {0}, Realloc(p, n)
    PROVE  IInv'
<1> DEFINE b == gca_data_to_header(p)
           g == gca_coalesce_next(heap, b)
           size == aligned(n)
<1>1. HeapInv(heap) /\ Held(heap, live) /\ Fine(n) /\ size # 0
  BY CreatedIs, FineSizes
<1>2. n \in Nat /\ size \in Nat /\ size % GCA_DATA_ALIGN = 0 /\ size >= GCA_DATA_ALIGN /\ size >= n
  BY <1>1, AlignedIs DEF Fine
<1>3. /\ b \in UsedOf(heap) /\ HeapInv(g) /\ UsedOf(g) = UsedOf(heap)
      /\ g.mem[b].curr.size >= heap.mem[b].curr.size
      /\ \A a \in UsedOf(heap) \ {b} : g.mem[a].curr = heap.mem[a].curr
      /\ ~CoalescesNext(heap, b) => g = heap
  BY <1>1, GrownIs
<1>4. ASSUME ReallocShrink(p, n) PROVE IInv'
  <2>1. size <= heap.mem[b].curr.size /\ heap' = gca_split_block(heap, b, size) /\ live' = Given(p, n)
    BY <1>4 DEF ReallocShrink
  <2> QED
    BY <1>1, <1>2, <2>1, InPlaceStep
<1>5. ASSUME ReallocGrow(p, n, b, g) PROVE IInv'
  <2>1. size <= g.mem[b].curr.size /\ heap' = gca_split_block(g, b, size) /\ live' = Given(p, n)
    BY <1>5 DEF ReallocGrow, Suffices
  <2> HIDE DEF g
  <2> QED
    BY <1>1, <1>2, <1>3, <2>1, InPlaceStep
<1>6. ASSUME size > heap.mem[b].curr.size, ReallocExtend(p, n, b, g) PROVE IInv'
  <2> DEFINE k == Missing(g, b, n)
             f == gca_coalesce_next(gca_sbrk_new_block(g, k).h, b)
  <2>1. /\ ~Suffices(g, b, n) /\ gca_is_sentinel(g, gca_next(g, b)) /\ CanMove(g, page_size(k))
        /\ heap' = gca_split_block(f, b, size) /\ live' = Given(p, n)
    BY <1>6 DEF ReallocExtend, AtTop
  <2> HIDE DEF g
  <2>2. b \in UsedOf(g) /\ g.mem[b].curr.size \in Nat
    BY <1>3, UsedTypes
  <2>3. size > g.mem[b].curr.size
    <3>1. CASE CoalescesNext(heap, b)
      <4>1. ~(size <= g.mem[b].curr.size)
        BY <2>1, <3>1 DEF Suffices
      <4> QED
        BY <1>2, <2>2, <4>1
    <3>2. CASE ~CoalescesNext(heap, b)
      BY <1>3, <1>6, <3>2
    <3> QED
      BY <3>1, <3>2
  <2>4. /\ k \in Nat /\ k >= GCA_DATA_ALIGN /\ k + g.mem[b].curr.size = size
        /\ page_size(k) \in Nat /\ page_size(k) % GCA_DATA_ALIGN = 0
        /\ page_size(k) >= k + GCA_INFO_SIZE
    BY <1>1, <1>3, <2>2, <2>3, MissingIs
  <2> HIDE DEF k
  <2>5. /\ HeapInv(f) /\ UsedOf(f) = UsedOf(g)
        /\ f.mem[b].curr.size >= g.mem[b].curr.size + k
        /\ \A a \in UsedOf(g) \ {b} : f.mem[a].curr = g.mem[a].curr
    BY <1>3, <2>1, <2>2, <2>4, ExtendedOver
  <2> HIDE DEF f
  <2>6. size <= f.mem[b].curr.size
    <3>1. f.mem[b].curr.size \in Nat
      BY <2>2, <2>5, UsedTypes
    <3> QED
      BY <1>2, <2>2, <2>4, <2>5, <3>1
  <2>7. UsedOf(f) = UsedOf(heap) /\ \A a \in UsedOf(heap) \ {b} : f.mem[a].curr = heap.mem[a].curr
    BY <1>3, <2>5
  <2> QED
    BY <1>1, <1>2, <2>1, <2>5, <2>6, <2>7, InPlaceStep
<1>7. ASSUME ReallocMove(p, n, b, g) PROVE IInv'
  BY <1>1, <1>7, MoveStep
<1> QED
  BY <1>4, <1>5, <1>6, <1>7 DEF Realloc

\* The invariant is inductive.
LEMMA NextStep ==
    ASSUME IInv, [Next]_vars
    PROVE  IInv'
<1>1. CASE UNCHANGED vars
  BY <1>1 DEF vars, IInv
<1>2. ASSUME NEW heapSize \in HeapSizes, CreateHeap(heapSize) PROVE IInv'
  BY <1>2, CreateStep
<1>3. CASE gca_destroy
  BY <1>3 DEF gca_destroy, IInv
<1>4. ASSUME NEW n, Fine(n), Created, Takes(gca_malloc(heap, n), n) PROVE IInv'
  BY <1>4, CreatedIs, TakesStep
<1>5. ASSUME NEW n \in Sizes, Malloc(n) PROVE IInv'
  BY <1>4, <1>5, FineSizes DEF Malloc
<1>6. ASSUME NEW n \in GrowSizes, ReallocNull(n) PROVE IInv'
  BY <1>4, <1>6, FineSizes DEF ReallocNull, Malloc
<1>7. ASSUME NEW num \in Counts, NEW size \in Sizes, gca_calloc(num, size) PROVE IInv'
  <2> DEFINE n == num * size
  <2>1. Created /\ Takes(gca_malloc(heap, n), n) /\ size # 0 /\ num <= SIZE_MAX \div size
    BY <1>7 DEF gca_calloc
  <2>2. Fine(n)
    BY <2>1, FineSizes
  <2> HIDE DEF n
  <2> QED
    BY <1>4, <2>1, <2>2
<1>8. ASSUME NEW p \in DOMAIN live, Free(p) PROVE IInv'
  BY <1>8, FreeStep
<1>9. ASSUME NEW p \in DOMAIN live, NEW n \in GrowSizes \ {0}, Realloc(p, n) PROVE IInv'
  BY <1>9, ReallocStep
<1> QED
  BY <1>1, <1>2, <1>3, <1>5, <1>6, <1>7, <1>8, <1>9 DEF Next

LEMMA Invariant == Spec => []IInv
<1>1. Init => IInv
  BY DEF Init, IInv
<1> QED
  BY <1>1, NextStep, PTL DEF Spec

-----------------------------------------------------------------------------
(* The properties                                                          *)

LEMMA BlocksAre ==
    ASSUME HeapInv(heap)
    PROVE  Blocks = BlocksOf(heap) /\ FreeBlocks = FreeOf(heap) /\ Top(heap) \in Dom(heap) /\ 0 \in BlocksOf(heap)
<1>1. Tags(heap) /\ Top(heap) \in Dom(heap) /\ heap.mem[Top(heap)].curr = Info(0, TRUE) /\ 0 \in BlocksOf(heap)
  BY DEF HeapInv, WF, Tags, Ends
<1>2. heap.mem[Top(heap)].curr.size = 0
  BY <1>1 DEF Info
<1>3. \A b \in BlocksOf(heap) : heap.mem[b].curr.size >= 16
  BY <1>1 DEF Tags, Chained, GCA_DATA_ALIGN, Word
<1>4. \A b \in BlocksOf(heap) : heap.mem[b].curr.size # 0
  BY <1>3
<1>5. Blocks = {b \in Dom(heap) : heap.mem[b].curr.size # 0}
  BY DEF Blocks, Dom
<1>6. Blocks = BlocksOf(heap)
  BY <1>2, <1>4, <1>5 DEF BlocksOf
<1> QED
  BY <1>1, <1>6 DEF FreeBlocks, FreeOf

LEMMA EmptyIs ==
    ASSUME heap = NoHeap, live = [p \in {} |-> NULL]
    PROVE  ~Created /\ Blocks = {} /\ FreeBlocks = {} /\ DOMAIN live = {}
BY DEF NoHeap, Created, Blocks, FreeBlocks

\* Whatever is asked of the allocator, in any order, its blocks tile the memory
\* below the break: no block overlaps another, none is lost, each has room for
\* its links and is aligned (gca_split_block, gca_coalesce, gca_sbrk_new_block).
THEOREM BlocksTile == Spec => []Tiled
<1>1. ASSUME IInv PROVE Tiled
  <2>1. CASE HeapInv(heap)
    <3>1. /\ Tags(heap) /\ Blocks = BlocksOf(heap) /\ 0 \in BlocksOf(heap) /\ Top(heap) \in Dom(heap)
      BY <2>1, BlocksAre DEF HeapInv, WF
    <3>2. Dom(heap) \ BlocksOf(heap) = {Top(heap)}
      BY <3>1 DEF BlocksOf
    <3>3. ASSUME NEW b \in BlocksOf(heap)
          PROVE  /\ heap.mem[b].curr.size >= GCA_DATA_ALIGN
                 /\ gca_header_to_data(b) % GCA_DATA_ALIGN = 0
                 /\ gca_next(heap, b) \in Dom(heap)
                 /\ \A a \in Dom(heap) : ~(b < a /\ a < gca_next(heap, b))
      <4>1. Chained(heap, b) /\ b \in Dom(heap) /\ b % GCA_DATA_ALIGN = 0 /\ Dom(heap) \subseteq Nat
        BY <3>1 DEF Tags, BlocksOf, Aligned, HeapType
      <4>2. gca_header_to_data(b) % GCA_DATA_ALIGN = 0
        BY <4>1 DEF gca_header_to_data, GCA_DATA_ALIGN, GCA_INFO_SIZE, Word
      <4> DEFINE n == gca_next(heap, b)
      <4>3. n \in Dom(heap) /\ heap.mem[b].curr.size >= GCA_DATA_ALIGN /\ \A a \in Dom(heap) : a <= b \/ n <= a
        BY <4>1 DEF Chained
      <4> HIDE DEF n
      <4>4. \A a \in Dom(heap) : ~(b < a /\ a < n)
        BY <4>1, <4>3
      <4> QED
        BY <4>2, <4>3, <4>4 DEF n
    <3> QED
      BY <3>1, <3>2, <3>3 DEF Tiled, Dom, Top
  <2>2. CASE heap = NoHeap /\ live = [p \in {} |-> NULL]
    BY <2>2, EmptyIs DEF Tiled
  <2> QED
    BY <1>1, <2>1, <2>2 DEF IInv
<1> QED
  BY <1>1, Invariant, PTL

\* Whatever is asked of the allocator, the two tags of every block agree and no
\* two free blocks are neighbours: gca_coalesce, gca_split_block and a realloc
\* that absorbs its neighbour leave nothing to join.
THEOREM TagsCoalesced == Spec => []Coalesced
<1>1. ASSUME IInv PROVE Coalesced
  <2>1. CASE HeapInv(heap)
    <3>1. /\ Tags(heap) /\ Apart(heap, {}) /\ Blocks = BlocksOf(heap) /\ FreeBlocks = FreeOf(heap)
      BY <2>1, BlocksAre DEF HeapInv, WF
    <3>2. TagsAgree
      BY <3>1 DEF TagsAgree, Tags, Chained
    <3>3. NoFreeNeighbours
      BY <3>1 DEF NoFreeNeighbours, Apart
    <3> QED
      BY <3>2, <3>3 DEF Coalesced
  <2>2. CASE heap = NoHeap /\ live = [p \in {} |-> NULL]
    BY <2>2, EmptyIs DEF Coalesced, TagsAgree, NoFreeNeighbours
  <2> QED
    BY <1>1, <2>1, <2>2 DEF IInv
<1> QED
  BY <1>1, Invariant, PTL

\* Whatever is asked of the allocator, a walk along next_free from free_list
\* meets every free block and nothing else, and prev_free leads back: what
\* gca_find_free_block and gca_remove_free_list rely on.
THEOREM FreeListIsExact == Spec => []ListExact
<1>1. ASSUME IInv PROVE ListExact
  <2>1. CASE HeapInv(heap)
    <3> DEFINE at == ListAt(heap)
               N == FreeOf(heap)
               c == Cardinality(Dom(heap))
    <3>1. FreeBlocks = N /\ Tags(heap) /\ HeapType(heap)
      BY <2>1, BlocksAre DEF HeapInv, WF, Tags
    <3>2. PICK s, len : Listed(heap, N, s, len)
      BY <2>1 DEF HeapInv, WF, IsListed
    <3>3. /\ DOMAIN at = 1 .. c /\ len <= c /\ c \in Nat
          /\ \A i \in 1 .. c : at[i] = IF i <= len THEN s[i] ELSE NULL
      BY <3>1, <3>2, TagsFinite, ListAtIs
    <3>4. /\ len \in Nat /\ \A i \in 1 .. len : s[i] \in N
          /\ \A n \in N : \E i \in 1 .. len : s[i] = n
          /\ \A i \in 1 .. len : /\ heap.mem[s[i]].prev_free = (IF i = 1 THEN NULL ELSE s[i - 1])
                                 /\ heap.mem[s[i]].next_free = (IF i = len THEN NULL ELSE s[i + 1])
      BY <3>2 DEF Listed
    <3>5. \A n \in N : n # NULL
      BY <3>1 DEF HeapType, FreeOf, BlocksOf, NULL
    <3> HIDE DEF at, c, N
    <3>6. {at[i] : i \in DOMAIN at} \ {NULL} = N
      <4>1. ASSUME NEW i \in DOMAIN at, at[i] # NULL PROVE at[i] \in N
        BY <3>3, <3>4, <4>1
      <4>2. ASSUME NEW n \in N PROVE \E i \in DOMAIN at : at[i] = n
        <5>1. PICK i \in 1 .. len : s[i] = n
          BY <3>4
        <5>2. i \in DOMAIN at /\ at[i] = n
          BY <3>3, <3>4, <5>1
        <5> QED
          BY <5>2
      <4> QED
        BY <3>5, <4>1, <4>2
    <3>7. ASSUME NEW i \in DOMAIN at, at[i] # NULL
          PROVE  /\ heap.mem[at[i]].prev_free = IF i = 1 THEN NULL ELSE at[i - 1]
                 /\ heap.mem[at[i]].next_free # NULL =>
                       heap.mem[heap.mem[at[i]].next_free].prev_free = at[i]
      <4>1. i \in 1 .. len /\ at[i] = s[i]
        BY <3>3, <3>4, <3>7
      <4>2. i # 1 => i - 1 \in 1 .. c /\ i - 1 <= len
        BY <3>3, <3>4, <4>1
      <4>3. i # 1 => at[i - 1] = s[i - 1]
        BY <3>3, <4>2
      <4>4. i # len => i + 1 \in 1 .. len /\ i + 1 # 1 /\ (i + 1) - 1 = i
        BY <3>4, <4>1
      <4>5. i # len => heap.mem[s[i + 1]].prev_free = s[i]
        BY <3>4, <4>4
      <4> QED
        BY <3>4, <4>1, <4>3, <4>5
    <3> QED
      BY <3>1, <3>6, <3>7 DEF ListExact, at
  <2>2. CASE heap = NoHeap /\ live = [p \in {} |-> NULL]
    BY <2>2, EmptyIs DEF ListExact
  <2> QED
    BY <1>1, <2>1, <2>2 DEF IInv
<1> QED
  BY <1>1, Invariant, PTL

\* Whatever is asked of the allocator, every pointer a client holds leads to a
\* block in use with room for what it asked for, and no other block is in use
\* (gca_malloc, gca_calloc, gca_realloc in place, grown or moved, gca_free).
THEOREM HeldIsExact == Spec => []HeldExact
<1>1. ASSUME IInv PROVE HeldExact
  <2>1. CASE HeapInv(heap) /\ Held(heap, live)
    <3>1. Blocks \ FreeBlocks = UsedOf(heap)
      BY <2>1, BlocksAre DEF UsedOf
    <3>2. ASSUME NEW b \in UsedOf(heap)
          PROVE  \E p \in DOMAIN live : gca_data_to_header(p) = b
      <4>1. b \in Int
        BY <2>1, UsedTypes
      <4> QED
        BY <2>1, <4>1, InverseIs DEF Held
    <3>3. {gca_data_to_header(p) : p \in DOMAIN live} = UsedOf(heap)
      BY <2>1, <3>2 DEF Held
    <3> QED
      BY <2>1, <3>1, <3>3 DEF HeldExact, Held
  <2>2. CASE heap = NoHeap /\ live = [p \in {} |-> NULL]
    BY <2>2, EmptyIs DEF HeldExact
  <2> QED
    BY <1>1, <2>1, <2>2 DEF IInv
<1> QED
  BY <1>1, Invariant, PTL

-----------------------------------------------------------------------------
(* The break                                                               *)

Fields == {"mem", "free_list", "current_brk", "heap_size"}

\* g is a heap with the break and the end of h.
BrkSame(h, g) ==
    DOMAIN g = Fields /\ g.current_brk = h.current_brk /\ g.heap_size = h.heap_size

\* Nothing but gca_sbrk_new_block moves the break.
LEMMA BrkKept ==
    ASSUME NEW h, DOMAIN h = Fields, NEW b
    PROVE  /\ BrkSame(h, gca_add_free_list(h, b)) /\ BrkSame(h, gca_remove_free_list(h, b))
           /\ BrkSame(h, Marked(h, b)) /\ BrkSame(h, Unmarked(h, b))
           /\ \A n, nn : BrkSame(h, Absorbed(h, b, n, nn))
           /\ \A size, rest, n : BrkSame(h, Cut(h, b, size, rest, n))
<1>1. /\ BrkSame(h, gca_add_free_list(h, b)) /\ BrkSame(h, gca_remove_free_list(h, b))
  BY DEF BrkSame, Fields, gca_add_free_list, gca_remove_free_list
<1>2. BrkSame(h, Marked(h, b)) /\ BrkSame(h, Unmarked(h, b))
  BY DEF BrkSame, Fields, Marked, Unmarked
<1>3. \A n, nn : BrkSame(h, Absorbed(h, b, n, nn))
  BY DEF BrkSame, Fields, Absorbed
<1>4. \A size, rest, n : BrkSame(h, Cut(h, b, size, rest, n))
  BY DEF BrkSame, Fields, Cut
<1> QED
  BY <1>1, <1>2, <1>3, <1>4

LEMMA BrkCoalesced ==
    ASSUME NEW h, DOMAIN h = Fields, NEW b
    PROVE  BrkSame(h, gca_coalesce_next(h, b)) /\ BrkSame(h, gca_coalesce_prev(h, b))
<1>1. ASSUME NEW c PROVE BrkSame(h, gca_coalesce_next(h, c))
  <2>1. CASE CoalescesNext(h, c)
    <3> DEFINE n == gca_next(h, c)
               f == gca_remove_free_list(h, n)
               g == Absorbed(f, c, n, gca_next(h, n))
    <3>1. gca_coalesce_next(h, c) = g
      BY <2>1 DEF gca_coalesce_next
    <3>2. BrkSame(h, f)
      BY BrkKept
    <3>3. DOMAIN f = Fields
      BY <3>2 DEF BrkSame
    <3> HIDE DEF f
    <3>4. \A d, k : BrkSame(f, Absorbed(f, c, d, k))
      BY <3>3, BrkKept
    <3>5. BrkSame(f, g)
      BY <3>4
    <3> QED
      BY <3>1, <3>2, <3>5 DEF BrkSame
  <2>2. CASE ~CoalescesNext(h, c)
    BY <2>2 DEF gca_coalesce_next, BrkSame
  <2> QED
    BY <2>1, <2>2
<1> QED
  BY <1>1 DEF gca_coalesce_prev, BrkSame

LEMMA BrkFreed ==
    ASSUME NEW h, DOMAIN h = Fields, NEW b PROVE BrkSame(h, gca_free(h, b))
<1> DEFINE w == Unmarked(h, b)
           f == gca_add_free_list(w, b)
           c == gca_coalesce_next(f, b)
           g == gca_coalesce_prev(c, b)
<1>1. gca_free(h, b) = g
  BY DEF gca_free, gca_coalesce
<1>2. BrkSame(h, w)
  BY BrkKept
<1> HIDE DEF w
<1>3. BrkSame(w, f)
  BY <1>2, BrkKept DEF BrkSame
<1> HIDE DEF f
<1>4. BrkSame(f, c)
  BY <1>3, BrkCoalesced DEF BrkSame
<1> HIDE DEF c
<1>5. BrkSame(c, g)
  BY <1>4, BrkCoalesced DEF BrkSame
<1> QED
  BY <1>1, <1>2, <1>3, <1>4, <1>5 DEF BrkSame

LEMMA BrkSplit ==
    ASSUME NEW h, DOMAIN h = Fields, NEW b, NEW size
    PROVE  BrkSame(h, gca_split_block(h, b, size))
<1>1. CASE Splits(h, b, size)
  <2> DEFINE rest == gca_header_to_data(b) + size
             e == Cut(h, b, size, rest, gca_next(h, b))
             a == gca_add_free_list(e, rest)
             c == gca_split_block(h, b, size)
  <2>1. c = gca_coalesce_next(a, rest)
    BY <1>1 DEF gca_split_block, Rest
  <2>2. BrkSame(h, e)
    BY BrkKept
  <2> HIDE DEF e, c
  <2>3. BrkSame(e, a)
    BY <2>2, BrkKept DEF BrkSame
  <2> HIDE DEF a
  <2>4. BrkSame(a, c)
    BY <2>1, <2>3, BrkCoalesced DEF BrkSame
  <2>5. BrkSame(h, c)
    BY <2>2, <2>3, <2>4 DEF BrkSame
  <2> QED
    BY <2>5 DEF c
<1>2. CASE ~Splits(h, b, size)
  BY <1>2 DEF gca_split_block, BrkSame
<1> QED
  BY <1>1, <1>2

LEMMA BrkTaken ==
    ASSUME NEW r, DOMAIN r.h = Fields, NEW size
    PROVE  BrkSame(r.h, Taken(r, size).h)
<1> DEFINE h == r.h
           b == r.block
           c == gca_split_block(h, b, size)
           f == gca_remove_free_list(c, b)
           g == Marked(f, b)
           t == Taken(r, size)
<1>1. BrkSame(h, c)
  BY BrkSplit
<1> HIDE DEF c
<1>2. BrkSame(c, f)
  BY <1>1, BrkKept DEF BrkSame
<1> HIDE DEF f
<1>3. BrkSame(f, g)
  BY <1>2, BrkKept DEF BrkSame
<1>4. t = [h |-> h, ptr |-> NULL] \/ t = [h |-> g, ptr |-> gca_header_to_data(b)]
  BY DEF Taken, c, f
<1> HIDE DEF t, g
<1>5. t.h = h \/ t.h = g
  BY <1>4
<1>6. BrkSame(h, t.h)
  BY <1>1, <1>2, <1>3, <1>5 DEF BrkSame
<1> QED
  BY <1>6 DEF t

\* A block too small for the rounded size is too small for the size.
LEMMA SmallerIs ==
    ASSUME NEW h, Tags(h), NEW b \in BlocksOf(h), NEW n \in 0 .. SIZE_MAX,
           h.mem[b].curr.size < aligned(n)
    PROVE  h.mem[b].curr.size < n
<1> DEFINE W == 2 ^ SizeBits
           x == h.mem[b].curr.size
           y == size_t(n + GCA_DATA_ALIGN - 1)
           s == aligned(n)
<1>1. x \in Nat /\ x % 16 = 0
  <2>1. /\ HeapType(h) /\ b \in Dom(h) /\ gca_next(h, b) \in Dom(h) /\ b \in Nat
        /\ b % 16 = 0 /\ gca_next(h, b) % 16 = 0
    BY NextIs DEF Tags, Aligned, GCA_DATA_ALIGN, Word
  <2>2. x \in Nat /\ gca_next(h, b) = b + 16 + x
    BY <2>1, HeaderTypes DEF GCA_INFO_SIZE, Word
  <2> HIDE DEF x
  <2> QED
    BY <2>1, <2>2
<1>2. W \in Nat /\ W > 48 /\ n \in Nat
  BY PageAssumption, WidthAssumption DEF SIZE_MAX, GCA_INFO_SIZE, GCA_DATA_ALIGN, Word
<1>3. y = (n + 15) % W
  BY <1>2 DEF size_t, GCA_DATA_ALIGN, Word
<1> HIDE DEF W, x
<1>4. y \in Nat /\ y <= n + 15
  BY <1>2, <1>3
<1>5. s = y - (y % 16)
  BY DEF aligned, gca_round_up, GCA_DATA_ALIGN, Word
<1> HIDE DEF y, s
<1>6. x < s
  BY DEF x, s
<1>7. x < n
  BY <1>1, <1>2, <1>4, <1>5, <1>6
<1> QED
  BY <1>7 DEF x

\* gca_malloc moves the break only if every free block is too small.
LEMMA MallocBreak ==
    ASSUME NEW h, HeapInv(h), NEW n, Fine(n),
           gca_malloc(h, n).h.current_brk # h.current_brk
    PROVE  \A b \in FreeOf(h) : h.mem[b].curr.size < n
<1> DEFINE size == aligned(n)
           found == gca_find_free_block(h, size)
<1>1. /\ Tags(h) /\ HeapType(h) /\ IsFiniteSet(Dom(h)) /\ DOMAIN h = Fields
      /\ n \in 0 .. SIZE_MAX /\ size \in Nat
  <2>1. Tags(h) /\ HeapType(h) /\ IsFiniteSet(Dom(h)) /\ n \in 0 .. SIZE_MAX
    BY TagsFinite DEF HeapInv, WF, Tags, Fine
  <2>2. DOMAIN h = Fields
    BY <2>1 DEF HeapType, Heaps, Fields
  <2> QED
    BY <2>1, <2>2, AlignedIs
<1>2. size # 0
  <2>1. ASSUME size = 0 PROVE gca_malloc(h, n) = [h |-> h, ptr |-> NULL]
    BY <2>1 DEF gca_malloc
  <2> QED
    BY <2>1
<1>3. found = NULL
  <2>1. ASSUME found # NULL PROVE gca_malloc(h, n) = Taken([h |-> h, block |-> found], size)
    BY <1>2, <2>1 DEF gca_malloc, FromList
  <2>2. BrkSame(h, Taken([h |-> h, block |-> found], size).h)
    BY <1>1, BrkTaken
  <2> QED
    BY <2>1, <2>2 DEF BrkSame
<1>4. \A b \in FreeOf(h) : h.mem[b].curr.size < size
  <2>1. PICK s, len : Listed(h, FreeOf(h), s, len)
    BY DEF HeapInv, WF, IsListed
  <2>2. NULL \notin FreeOf(h)
    BY <1>1 DEF HeapType, FreeOf, BlocksOf, NULL
  <2> HIDE DEF size
  <2> QED
    BY <1>1, <1>3, <2>1, <2>2, FindIs
<1> QED
  BY <1>1, <1>4, SmallerIs DEF FreeOf

LEMMA HeapIs ==
    ASSUME NEW h, HeapInv(h)
    PROVE  DOMAIN h = Fields /\ DOMAIN h.mem # {}
<1>1. HeapType(h) /\ 0 \in DOMAIN h.mem
  BY DEF HeapInv, WF, Tags, Ends, BlocksOf, Dom
<1> QED
  BY <1>1 DEF HeapType, Heaps, Fields

\* A failing malloc moves nothing, and what it answers otherwise is no region
\* that a client holds.
LEMMA MallocNew ==
    ASSUME NEW h, HeapInv(h), NEW l, Held(h, l), NEW n, Fine(n),
           gca_malloc(h, n).h.current_brk # h.current_brk
    PROVE  gca_malloc(h, n).ptr # NULL /\ gca_malloc(h, n).ptr \notin DOMAIN l
<1> DEFINE m == gca_malloc(h, n)
<1>1. /\ HeapInv(m.h)
      /\ \/ m.ptr = NULL /\ m.h = h
         \/ \E b \in UsedOf(m.h) \ UsedOf(h) : m.ptr = gca_header_to_data(b) /\ m.ptr # NULL
  BY MallocKeeps DEF HeapInv
<1> HIDE DEF m
<1>2. PICK b \in UsedOf(m.h) \ UsedOf(h) : m.ptr = gca_header_to_data(b) /\ m.ptr # NULL
  BY <1>1 DEF m
<1>3. gca_data_to_header(m.ptr) = b
  BY <1>1, <1>2, UsedTypes DEF gca_header_to_data, gca_data_to_header, GCA_INFO_SIZE, Word
<1>4. m.ptr \notin DOMAIN l
  BY <1>2, <1>3 DEF Held
<1> QED
  BY <1>2, <1>4 DEF m

BreakStep ==
    heap.current_brk # heap'.current_brk /\ Created /\ DOMAIN heap'.mem # {} =>
        \E p \in DOMAIN live' :
            \/ /\ p \notin DOMAIN live
               /\ \A b \in FreeBlocks : heap.mem[b].curr.size < live'[p]
            \/ /\ p \in DOMAIN live
               /\ \A q \in DOMAIN live : q <= p
               /\ p + live'[p] > gca_data_to_header(heap.current_brk)

LEMMA BreakTakes ==
    ASSUME IInv, Created, NEW n, Fine(n), Takes(gca_malloc(heap, n), n)
    PROVE  BreakStep
<1> DEFINE m == gca_malloc(heap, n)
<1>1. HeapInv(heap) /\ Held(heap, live) /\ FreeBlocks = FreeOf(heap)
  BY CreatedIs, BlocksAre
<1>2. heap' = m.h /\ live' = IF m.ptr = NULL THEN live ELSE Given(m.ptr, n)
  BY DEF Takes
<1> SUFFICES ASSUME m.h.current_brk # heap.current_brk
             PROVE  \E p \in DOMAIN live' :
                       /\ p \notin DOMAIN live
                       /\ \A b \in FreeBlocks : heap.mem[b].curr.size < live'[p]
  BY <1>2 DEF BreakStep
<1>3. \A b \in FreeOf(heap) : heap.mem[b].curr.size < n
  BY <1>1, MallocBreak
<1>4. m.ptr # NULL /\ m.ptr \notin DOMAIN live
  BY <1>1, MallocNew
<1> HIDE DEF m
<1>5. m.ptr \in DOMAIN live' /\ live'[m.ptr] = n
  BY <1>2, <1>4 DEF Given
<1> QED
  BY <1>1, <1>3, <1>4, <1>5

\* A block that moves had its neighbour, if that was free, to grow over first.
LEMMA BreakMove ==
    ASSUME IInv, NEW p \in DOMAIN live, NEW n \in GrowSizes \ {0},
           ReallocMove(p, n, gca_data_to_header(p), gca_coalesce_next(heap, gca_data_to_header(p)))
    PROVE  BreakStep
<1> DEFINE b == gca_data_to_header(p)
           g == gca_coalesce_next(heap, b)
           m == gca_malloc(g, n)
           e == gca_next(heap, b)
<1>1. HeapInv(heap) /\ Held(heap, live) /\ FreeBlocks = FreeOf(heap) /\ Fine(n)
  BY CreatedIs, BlocksAre, FineSizes
<1>2. b \in UsedOf(heap) /\ HeapInv(g) /\ Held(g, live)
  BY <1>1, GrownIs
<1>3. /\ ~Suffices(g, b, n)
      /\ IF m.ptr = NULL
         THEN heap' = m.h /\ live' = live
         ELSE /\ heap' = gca_free(m.h, b)
              /\ live' = [q \in (DOMAIN live \ {p}) \cup {m.ptr} |-> IF q = m.ptr THEN n ELSE live[q]]
  BY DEF ReallocMove
<1>4. /\ b \in BlocksOf(heap) /\ b \notin FreeOf(heap) /\ Grown(heap, g, b)
      /\ FreeOf(heap) \ {e} \subseteq FreeOf(g)
      /\ CoalescesNext(heap, b) =>
            g.mem[b].curr.size = heap.mem[b].curr.size + GCA_INFO_SIZE + heap.mem[e].curr.size
  <2>1. WF(heap) /\ b \in BlocksOf(heap) /\ b \notin FreeOf(heap)
    BY <1>1, <1>2 DEF HeapInv, UsedOf
  <2> HIDE DEF b
  <2> QED
    BY <2>1, CoalesceNextKeeps
<1>5. BrkSame(heap, g) /\ DOMAIN m.h = Fields
  <2>1. DOMAIN heap = Fields
    BY <1>1 DEF HeapInv, WF, Tags, HeapType, Heaps, Fields
  <2>2. WF(m.h)
    BY <1>1, <1>2, MallocKeeps DEF HeapInv
  <2>3. DOMAIN m.h = Fields
    BY <2>2 DEF WF, Tags, HeapType, Heaps, Fields
  <2> QED
    BY <2>1, <2>3, BrkCoalesced
<1>6. m.h.current_brk # g.current_brk => \A a \in FreeOf(g) : g.mem[a].curr.size < n
  BY <1>1, <1>2, MallocBreak
<1>10. m.h.current_brk # g.current_brk => m.ptr # NULL /\ m.ptr \notin DOMAIN live
  BY <1>1, <1>2, MallocNew
<1> HIDE DEF m, g, b, e
<1>7. heap'.current_brk = m.h.current_brk
  BY <1>3, <1>5, BrkFreed DEF BrkSame
<1>8. ASSUME m.h.current_brk # heap.current_brk, NEW a \in FreeOf(heap)
      PROVE  heap.mem[a].curr.size < n
  <2>1. \A c \in FreeOf(g) : g.mem[c].curr.size < n
    BY <1>5, <1>6, <1>8 DEF BrkSame
  <2>2. CASE a # e
    <3>1. a \in FreeOf(g) /\ a # b /\ a \in BlocksOf(g)
      BY <1>4, <2>2 DEF FreeOf
    <3>2. g.mem[a].curr = heap.mem[a].curr
      BY <1>4, <3>1 DEF Grown
    <3> QED
      BY <2>1, <3>1, <3>2
  <2>3. CASE a = e
    <3>1. Tags(heap) /\ HeapType(heap) /\ a \in BlocksOf(heap) /\ a \in Dom(heap) /\ b \in Dom(heap) /\ n \in 0 .. SIZE_MAX
      BY <1>1, <1>4 DEF HeapInv, WF, Tags, FreeOf, BlocksOf, Fine
    <3>2. CoalescesNext(heap, b)
      BY <1>8, <2>3 DEF CoalescesNext, FreeOf, e
    <3>3. /\ g.mem[b].curr.size = heap.mem[b].curr.size + GCA_INFO_SIZE + heap.mem[a].curr.size
          /\ ~(aligned(n) <= g.mem[b].curr.size)
      BY <1>3, <1>4, <2>3, <3>2 DEF Suffices
    <3>4. /\ heap.mem[b].curr.size \in Nat /\ heap.mem[a].curr.size \in Nat /\ aligned(n) \in Nat
      BY <3>1, HeaderTypes, AlignedIs
    <3>5. heap.mem[a].curr.size < aligned(n)
      BY <3>3, <3>4 DEF GCA_INFO_SIZE, Word
    <3> QED
      BY <3>1, <3>5, SmallerIs
  <2> QED
    BY <2>2, <2>3
<1>9. ASSUME m.h.current_brk # heap.current_brk
      PROVE  m.ptr \in DOMAIN live' /\ m.ptr \notin DOMAIN live /\ live'[m.ptr] = n
  BY <1>3, <1>5, <1>9, <1>10 DEF BrkSame
<1> QED
  BY <1>1, <1>7, <1>8, <1>9 DEF BreakStep

\* Growing in place past the break is left to the last block, which has not
\* the room.
LEMMA BreakExtend ==
    ASSUME IInv, NEW p \in DOMAIN live, NEW n \in GrowSizes \ {0},
           aligned(n) > heap.mem[gca_data_to_header(p)].curr.size,
           ReallocExtend(p, n, gca_data_to_header(p), gca_coalesce_next(heap, gca_data_to_header(p)))
    PROVE  BreakStep
<1> DEFINE b == gca_data_to_header(p)
           g == gca_coalesce_next(heap, b)
<1>1. HeapInv(heap) /\ Held(heap, live) /\ Fine(n) /\ n \in 0 .. SIZE_MAX /\ aligned(n) \in Nat
  BY CreatedIs, FineSizes, AlignedIs DEF Fine
<1>2. /\ b \in UsedOf(g) /\ HeapInv(g) /\ UsedOf(g) = UsedOf(heap)
      /\ ~CoalescesNext(heap, b) => g = heap
  BY <1>1, GrownIs
<1>3. ~Suffices(g, b, n) /\ gca_is_sentinel(g, gca_next(g, b)) /\ live' = Given(p, n)
  BY DEF ReallocExtend, AtTop
<1>4. Top(g) = Top(heap)
  BY <1>1, HeapIs, BrkCoalesced DEF BrkSame, Top
<1>5. p \in Int /\ p = b + GCA_INFO_SIZE
      /\ \A q \in DOMAIN live : q \in Int /\ gca_data_to_header(q) \in UsedOf(heap)
  BY <1>1 DEF Held, gca_data_to_header, GCA_INFO_SIZE, Word
<1> HIDE DEF g
<1>6. /\ Tags(g) /\ b \in BlocksOf(g) /\ b \in Nat /\ g.mem[b].curr.size \in Nat
      /\ HeapType(g) /\ b \in Dom(g)
  BY <1>2, UsedTypes DEF Tags, BlocksOf
<1>7. g.mem[b].curr.size < n
  <2>1. CASE CoalescesNext(heap, b)
    <3>1. ~(aligned(n) <= g.mem[b].curr.size)
      BY <1>3, <2>1 DEF Suffices
    <3>2. g.mem[b].curr.size < aligned(n)
      BY <1>1, <1>6, <3>1
    <3> QED
      BY <1>1, <1>6, <3>2, SmallerIs
  <2>2. CASE ~CoalescesNext(heap, b)
    <3>1. g.mem[b].curr.size < aligned(n)
      BY <1>1, <1>2, <1>6, <2>2
    <3> QED
      BY <1>1, <1>6, <3>1, SmallerIs
  <2> QED
    BY <2>1, <2>2
<1>8. gca_next(g, b) = Top(g)
  <2>1. gca_next(g, b) \in Dom(g) /\ g.mem[gca_next(g, b)].curr.size = 0
    BY <1>3, <1>6, NextIs DEF gca_is_sentinel
  <2>2. \A a \in BlocksOf(g) : g.mem[a].curr.size >= 16
    BY <1>6 DEF Tags, Chained, GCA_DATA_ALIGN, Word
  <2>3. gca_next(g, b) \notin BlocksOf(g)
    BY <2>1, <2>2
  <2> QED
    BY <2>1, <2>3 DEF BlocksOf
<1>9. b + GCA_INFO_SIZE + g.mem[b].curr.size = Top(heap)
  BY <1>4, <1>6, <1>8, HeaderTypes
<1>10. ASSUME NEW q \in DOMAIN live PROVE q <= p
  <2> DEFINE a == gca_data_to_header(q)
  <2>1. a \in BlocksOf(g) /\ q \in Int
    BY <1>2, <1>5 DEF UsedOf
  <2>2. a \in Dom(g) /\ a # Top(g) /\ a \in Nat /\ Top(g) \in Nat /\ a <= Top(g)
    BY <1>6, <2>1 DEF Tags, HeapType, Ends, BlocksOf
  <2>3. a <= b \/ Top(g) <= a
    BY <1>6, <1>8, <2>2 DEF Tags, Chained
  <2>4. a <= b
    BY <1>6, <2>2, <2>3
  <2> QED
    BY <1>5, <2>1, <2>4 DEF gca_data_to_header, GCA_INFO_SIZE, Word
<1>11. p \in DOMAIN live' /\ live'[p] = n
  BY <1>3 DEF Given
<1>12. p + n > Top(heap)
  BY <1>1, <1>5, <1>6, <1>7, <1>9 DEF GCA_INFO_SIZE, Word
<1> HIDE DEF b
<1> QED
  BY <1>10, <1>11, <1>12 DEF BreakStep, Top

LEMMA BreakRealloc ==
    ASSUME IInv, NEW p \in DOMAIN live, NEW n \in GrowSizes \ {0}, Realloc(p, n)
    PROVE  BreakStep
<1> DEFINE b == gca_data_to_header(p)
           g == gca_coalesce_next(heap, b)
<1>1. DOMAIN heap = Fields
  BY CreatedIs, HeapIs
<1>2. BrkSame(heap, g)
  BY <1>1, BrkCoalesced
<1>3. CASE ReallocShrink(p, n)
  <2>1. BrkSame(heap, heap')
    BY <1>1, <1>3, BrkSplit DEF ReallocShrink
  <2> QED
    BY <2>1 DEF BreakStep, BrkSame
<1>4. CASE ReallocGrow(p, n, b, g)
  <2>1. heap' = gca_split_block(g, b, aligned(n))
    BY <1>4 DEF ReallocGrow
  <2> HIDE DEF g
  <2>2. BrkSame(g, heap')
    BY <1>2, <2>1, BrkSplit DEF BrkSame
  <2> QED
    BY <1>2, <2>2 DEF BreakStep, BrkSame
<1>5. CASE aligned(n) > heap.mem[b].curr.size /\ ReallocExtend(p, n, b, g)
  BY <1>5, BreakExtend
<1>6. CASE ReallocMove(p, n, b, g)
  BY <1>6, BreakMove
<1> QED
  BY <1>3, <1>4, <1>5, <1>6 DEF Realloc

LEMMA BreakNext ==
    ASSUME IInv, Next
    PROVE  BreakStep
<1>1. ASSUME NEW heapSize \in HeapSizes, CreateHeap(heapSize) PROVE BreakStep
  BY <1>1 DEF CreateHeap, BreakStep
<1>2. CASE gca_destroy
  BY <1>2 DEF gca_destroy, NoHeap, BreakStep
<1>3. ASSUME NEW n \in Sizes, Malloc(n) PROVE BreakStep
  BY <1>3, BreakTakes, FineSizes DEF Malloc
<1>4. ASSUME NEW n \in GrowSizes, ReallocNull(n) PROVE BreakStep
  BY <1>4, BreakTakes, FineSizes DEF ReallocNull, Malloc
<1>5. ASSUME NEW num \in Counts, NEW size \in Sizes, gca_calloc(num, size) PROVE BreakStep
  <2> DEFINE n == num * size
  <2>1. Created /\ Takes(gca_malloc(heap, n), n) /\ size # 0 /\ num <= SIZE_MAX \div size
    BY <1>5 DEF gca_calloc
  <2>2. Fine(n)
    BY <2>1, FineSizes
  <2> HIDE DEF n
  <2> QED
    BY <2>1, <2>2, BreakTakes
<1>6. ASSUME NEW p \in DOMAIN live, Free(p) PROVE BreakStep
  <2>1. BrkSame(heap, heap')
    BY <1>6, CreatedIs, HeapIs, BrkFreed DEF Free
  <2> QED
    BY <2>1 DEF BreakStep, BrkSame
<1>7. ASSUME NEW p \in DOMAIN live, NEW n \in GrowSizes \ {0}, Realloc(p, n) PROVE BreakStep
  BY <1>7, BreakRealloc
<1> QED
  BY <1>1, <1>2, <1>3, <1>4, <1>5, <1>6, <1>7 DEF Next

\* Whatever is asked of the allocator, the break moves only for a region that
\* is new and larger than every free block (gca_find_free_block misses none, and
\* what a realloc absorbed in vain was too small as well), or for the last
\* region, which a realloc grows in place past the break without a search.
THEOREM BreakIsNeeded == Spec => BreakNeeded
<1>1. IInv /\ [Next]_vars => [BreakStep]_vars
  BY BreakNext
<1> QED
  BY <1>1, Invariant, PTL DEF Spec, BreakNeeded, BreakStep

-----------------------------------------------------------------------------
(* The mapping ends where the arena does                                   *)

Within(h) == h.heap_size \in HeapSizes /\ h.current_brk <= h.heap_size

LEMMA WithinSame ==
    ASSUME NEW h, NEW g, Within(h), BrkSame(h, g) PROVE Within(g)
BY DEF Within, BrkSame

\* gca_sbrk_new_block moves the break no further than the mapping.
LEMMA SbrkWithin ==
    ASSUME NEW h, DOMAIN h = Fields, Within(h), NEW size
    PROVE  LET g == gca_sbrk_new_block(h, size).h IN DOMAIN g = Fields /\ Within(g)
<1> DEFINE delta == page_size(size)
           top == gca_data_to_header(h.current_brk)
           e == Extended(h, delta)
           a == gca_add_free_list(e, top)
           c == gca_coalesce_prev(a, top)
           r == gca_sbrk_new_block(h, size)
<1>1. CASE CanMove(h, delta)
  <2>1. r = [h |-> c, block |-> PrevOrSelf(e, top)]
    BY <1>1 DEF gca_sbrk_new_block, NewBlock
  <2>2. r.h = c
    BY <2>1
  <2>3. DOMAIN e = Fields /\ e.current_brk = h.current_brk + delta /\ e.heap_size = h.heap_size
    BY DEF Extended, Fields
  <2>4. Within(e)
    BY <1>1, <2>3 DEF Within, CanMove
  <2> HIDE DEF e, r
  <2>5. BrkSame(e, a)
    BY <2>3, BrkKept
  <2> HIDE DEF a
  <2>6. BrkSame(a, c)
    BY <2>5, BrkCoalesced DEF BrkSame
  <2>7. DOMAIN c = Fields /\ Within(c)
    BY <2>4, <2>5, <2>6 DEF BrkSame, Within
  <2> HIDE DEF c
  <2> QED
    BY <2>2, <2>7 DEF r
<1>2. CASE ~CanMove(h, delta)
  <2>1. r = [h |-> h, block |-> NULL]
    BY <1>2 DEF gca_sbrk_new_block
  <2>2. r.h = h
    BY <2>1
  <2> QED
    BY <2>2
<1> QED
  BY <1>1, <1>2

LEMMA MallocWithin ==
    ASSUME NEW h, DOMAIN h = Fields, Within(h), NEW n
    PROVE  LET g == gca_malloc(h, n).h IN DOMAIN g = Fields /\ Within(g)
<1> DEFINE size == aligned(n)
           found == gca_find_free_block(h, size)
           r == FromList(h, found, size)
           m == gca_malloc(h, n)
<1>1. CASE size = 0
  <2>1. m = [h |-> h, ptr |-> NULL]
    BY <1>1 DEF gca_malloc
  <2>2. m.h = h
    BY <2>1
  <2> QED
    BY <2>2
<1>2. CASE size # 0
  <2>1. m = Taken(r, size)
    BY <1>2 DEF gca_malloc
  <2>2. DOMAIN r.h = Fields /\ Within(r.h)
    <3>1. CASE found # NULL
      <4>1. r = [h |-> h, block |-> found]
        BY <3>1 DEF FromList
      <4>2. r.h = h
        BY <4>1
      <4> QED
        BY <4>2
    <3>2. CASE found = NULL
      <4>1. r = gca_sbrk_new_block(h, size)
        BY <3>2 DEF FromList
      <4> HIDE DEF r
      <4> QED
        BY <4>1, SbrkWithin
    <3> QED
      BY <3>1, <3>2
  <2> HIDE DEF r, m
  <2>3. BrkSame(r.h, m.h)
    BY <2>1, <2>2, BrkTaken
  <2>4. DOMAIN m.h = Fields /\ Within(m.h)
    BY <2>2, <2>3, WithinSame DEF BrkSame
  <2> QED
    BY <2>4 DEF m
<1> QED
  BY <1>1, <1>2

BrkInv == Created => Within(heap)

LEMMA ReallocWithin ==
    ASSUME IInv, BrkInv, NEW p \in DOMAIN live, NEW n \in GrowSizes \ {0}, Realloc(p, n)
    PROVE  Within(heap')
<1> DEFINE b == gca_data_to_header(p)
           g == gca_coalesce_next(heap, b)
           size == aligned(n)
<1>1. DOMAIN heap = Fields /\ Within(heap)
  BY CreatedIs, HeapIs DEF BrkInv, Created
<1>2. DOMAIN g = Fields /\ Within(g)
  BY <1>1, BrkCoalesced, WithinSame DEF BrkSame
<1>3. ASSUME NEW h, DOMAIN h = Fields, Within(h), heap' = gca_split_block(h, b, size)
      PROVE  Within(heap')
  BY <1>3, BrkSplit, WithinSame
<1>4. CASE ReallocShrink(p, n)
  BY <1>1, <1>3, <1>4 DEF ReallocShrink
<1>5. CASE ReallocGrow(p, n, b, g)
  <2>1. heap' = gca_split_block(g, b, size)
    BY <1>5 DEF ReallocGrow
  <2> HIDE DEF g
  <2> QED
    BY <1>2, <1>3, <2>1
<1>6. CASE ReallocExtend(p, n, b, g)
  <2> DEFINE e == gca_sbrk_new_block(g, Missing(g, b, n)).h
             f == gca_coalesce_next(e, b)
  <2>1. heap' = gca_split_block(f, b, size)
    BY <1>6 DEF ReallocExtend
  <2> HIDE DEF g
  <2>2. DOMAIN e = Fields /\ Within(e)
    BY <1>2, SbrkWithin
  <2> HIDE DEF e
  <2>3. DOMAIN f = Fields /\ Within(f)
    BY <2>2, BrkCoalesced, WithinSame DEF BrkSame
  <2> HIDE DEF f
  <2> QED
    BY <1>3, <2>1, <2>3
<1>7. CASE ReallocMove(p, n, b, g)
  <2> DEFINE f == gca_malloc(g, n).h
  <2>1. heap' = f \/ heap' = gca_free(f, b)
    BY <1>7 DEF ReallocMove
  <2> HIDE DEF g
  <2>2. DOMAIN f = Fields /\ Within(f)
    BY <1>2, MallocWithin
  <2> HIDE DEF f
  <2> QED
    BY <2>1, <2>2, BrkFreed, WithinSame
<1> QED
  BY <1>4, <1>5, <1>6, <1>7 DEF Realloc

LEMMA NextWithin ==
    ASSUME IInv, BrkInv, [Next]_vars
    PROVE  BrkInv'
<1>1. CASE UNCHANGED vars
  BY <1>1 DEF vars, BrkInv, Created, Within
<1>2. ASSUME NEW n, Created, Takes(gca_malloc(heap, n), n) PROVE BrkInv'
  <2>1. DOMAIN heap = Fields /\ Within(heap)
    BY <1>2, CreatedIs, HeapIs DEF BrkInv
  <2>2. Within(heap')
    BY <1>2, <2>1, MallocWithin DEF Takes
  <2> QED
    BY <2>2 DEF BrkInv, Within
<1>3. ASSUME NEW heapSize \in HeapSizes, CreateHeap(heapSize) PROVE BrkInv'
  <2>1. PICK m : heap' = gca_add_free_list([mem |-> m, free_list |-> NULL, current_brk |-> GCA_SBRK_ALIGN,
                                            heap_size |-> heapSize], 0)
    BY <1>3 DEF CreateHeap
  <2> DEFINE h == [mem |-> m, free_list |-> NULL, current_brk |-> GCA_SBRK_ALIGN, heap_size |-> heapSize]
  <2>2. DOMAIN h = Fields /\ Within(h)
    BY <1>3 DEF Fields, Within, CreateHeap
  <2>3. heap' = gca_add_free_list(h, 0)
    BY <2>1
  <2> HIDE DEF h
  <2>4. Within(heap')
    BY <2>2, <2>3, BrkKept, WithinSame
  <2> QED
    BY <2>4 DEF BrkInv, Within
<1>4. CASE gca_destroy
  BY <1>4 DEF gca_destroy, NoHeap, BrkInv, Created
<1>5. ASSUME NEW n \in Sizes, Malloc(n) PROVE BrkInv'
  BY <1>2, <1>5 DEF Malloc
<1>6. ASSUME NEW n \in GrowSizes, ReallocNull(n) PROVE BrkInv'
  BY <1>2, <1>6 DEF ReallocNull, Malloc
<1>7. ASSUME NEW num \in Counts, NEW size \in Sizes, gca_calloc(num, size) PROVE BrkInv'
  <2> DEFINE n == num * size
  <2>1. Created /\ Takes(gca_malloc(heap, n), n)
    BY <1>7 DEF gca_calloc
  <2> HIDE DEF n
  <2> QED
    BY <1>2, <2>1
<1>8. ASSUME NEW p \in DOMAIN live, Free(p) PROVE BrkInv'
  <2>1. DOMAIN heap = Fields /\ Within(heap)
    BY <1>8, CreatedIs, HeapIs DEF BrkInv, Created
  <2>2. Within(heap')
    BY <1>8, <2>1, BrkFreed, WithinSame DEF Free
  <2> QED
    BY <2>2 DEF BrkInv, Within
<1>9. ASSUME NEW p \in DOMAIN live, NEW n \in GrowSizes \ {0}, Realloc(p, n) PROVE BrkInv'
  <2>1. Within(heap')
    BY <1>9, ReallocWithin
  <2> QED
    BY <2>1 DEF BrkInv, Within
<1> QED
  BY <1>1, <1>3, <1>4, <1>5, <1>6, <1>7, <1>8, <1>9 DEF Next

-----------------------------------------------------------------------------
(* The arena                                                               *)

LEMMA EndIs ==
    ASSUME NEW n \in HeapSizes
    PROVE  HeapEnd \in Nat /\ n \in Nat /\ n <= HeapEnd
<1>1. SIZE_MAX \in Nat /\ HeapSizes \subseteq 0 .. SIZE_MAX
  BY SizesAssumption, WidthAssumption, PageAssumption DEF SIZE_MAX
<1> DEFINE T == {k \in Nat : SIZE_MAX - k \in HeapSizes}
<1>2. SIZE_MAX - n \in T
  BY <1>1
<1>3. PICK k \in T : \A j \in T : k <= j
  BY <1>2, LeastNat
<1>4. SIZE_MAX - k \in HeapSizes /\ \A m \in HeapSizes : SIZE_MAX - m \in T /\ m \in Nat
  BY <1>1, <1>3
<1>5. \A m \in HeapSizes : m <= SIZE_MAX - k
  BY <1>1, <1>3, <1>4
<1>6. HeapEnd \in HeapSizes /\ \A m \in HeapSizes : m <= HeapEnd
  BY <1>4, <1>5 DEF HeapEnd
<1> QED
  BY <1>1, <1>6

\* What the clients hold lies apart, below the break.
LEMMA HeldApart ==
    ASSUME NEW h, NEW l, HeapInv(h), Held(h, l), Within(h), NEW p \in DOMAIN l
    PROVE  /\ ArenaOf!Bytes(p, l[p]) \subseteq 0 .. HeapEnd - 1
           /\ \A q \in DOMAIN l \ {p} : ArenaOf!Bytes(p, l[p]) \cap ArenaOf!Bytes(q, l[q]) = {}
<1>1. /\ Tags(h) /\ Dom(h) \subseteq Nat /\ h.current_brk \in Nat /\ Top(h) = h.current_brk - 16
      /\ \A a \in Dom(h) : a <= Top(h)
  BY DEF HeapInv, WF, Tags, HeapType, Heaps, Ends, Top, gca_data_to_header, GCA_INFO_SIZE, Word
<1>2. HeapEnd \in Nat /\ h.current_brk <= HeapEnd
  <2>1. h.heap_size \in HeapSizes /\ h.current_brk <= h.heap_size
    BY DEF Within
  <2>2. HeapEnd \in Nat /\ h.heap_size \in Nat /\ h.heap_size <= HeapEnd
    BY <2>1, EndIs
  <2> QED
    BY <1>1, <2>1, <2>2
<1>3. ASSUME NEW q \in DOMAIN l
      PROVE  \E b \in UsedOf(h) :
                /\ b = q - 16 /\ b \in Nat /\ b \in Dom(h) /\ gca_next(h, b) \in Dom(h)
                /\ q \in Int /\ l[q] \in Nat /\ q + l[q] <= gca_next(h, b)
                /\ \A a \in Dom(h) : a <= b \/ gca_next(h, b) <= a
  <2> DEFINE b == gca_data_to_header(q)
  <2>1. q \in Int /\ l[q] \in Nat /\ b \in UsedOf(h) /\ l[q] <= h.mem[b].curr.size /\ b = q - 16
    BY DEF Held, gca_data_to_header, GCA_INFO_SIZE, Word
  <2> HIDE DEF b
  <2>2. b \in BlocksOf(h) /\ b \in Dom(h) /\ b \in Nat /\ h.mem[b].curr.size \in Nat /\ HeapType(h)
    BY <1>1, <2>1, UsedTypes DEF BlocksOf, Tags
  <2>3. gca_next(h, b) = b + 16 + h.mem[b].curr.size
    BY <2>2, HeaderTypes DEF GCA_INFO_SIZE, Word
  <2>4. gca_next(h, b) \in Dom(h) /\ \A a \in Dom(h) : a <= b \/ gca_next(h, b) <= a
    BY <1>1, <2>2 DEF Tags, Chained
  <2>5. q + l[q] <= gca_next(h, b)
    BY <2>1, <2>2, <2>3
  <2> QED
    BY <2>1, <2>2, <2>4, <2>5
<1>4. PICK b \in UsedOf(h) :
         /\ b = p - 16 /\ b \in Nat /\ b \in Dom(h) /\ gca_next(h, b) \in Dom(h)
         /\ p \in Int /\ l[p] \in Nat /\ p + l[p] <= gca_next(h, b)
         /\ \A a \in Dom(h) : a <= b \/ gca_next(h, b) <= a
  BY <1>3
<1>5. ArenaOf!Bytes(p, l[p]) = b .. p + l[p] - 1
  BY <1>4 DEF ArenaOf!Bytes, GCA_INFO_SIZE, Word
<1>6. p + l[p] <= HeapEnd
  <2> DEFINE e == gca_next(h, b)
  <2>1. e \in Nat /\ e <= h.current_brk - 16
    BY <1>1, <1>4
  <2> HIDE DEF e
  <2>2. p + l[p] <= e
    BY <1>4 DEF e
  <2> QED
    BY <1>1, <1>2, <1>4, <2>1, <2>2
<1>7. ArenaOf!Bytes(p, l[p]) \subseteq 0 .. HeapEnd - 1
  BY <1>2, <1>4, <1>5, <1>6
<1>8. ASSUME NEW q \in DOMAIN l \ {p}
      PROVE  ArenaOf!Bytes(p, l[p]) \cap ArenaOf!Bytes(q, l[q]) = {}
  <2>1. PICK c \in UsedOf(h) :
         /\ c = q - 16 /\ c \in Nat /\ c \in Dom(h) /\ gca_next(h, c) \in Dom(h)
         /\ q \in Int /\ l[q] \in Nat /\ q + l[q] <= gca_next(h, c)
         /\ \A a \in Dom(h) : a <= c \/ gca_next(h, c) <= a
    BY <1>3
  <2>2. ArenaOf!Bytes(q, l[q]) = c .. q + l[q] - 1
    BY <2>1 DEF ArenaOf!Bytes, GCA_INFO_SIZE, Word
  <2>3. (c <= b \/ gca_next(h, b) <= c) /\ (b <= c \/ gca_next(h, c) <= b)
    BY <1>4, <2>1
  <2>4. gca_next(h, b) \in Nat /\ gca_next(h, c) \in Nat
    BY <1>1, <1>4, <2>1
  <2>5. p + l[p] <= c \/ q + l[q] <= b
    BY <1>4, <2>1, <2>3, <2>4
  <2> QED
    BY <1>4, <1>5, <2>1, <2>2, <2>5
<1> QED
  BY <1>7, <1>8

\* The client is given a region that nobody held.
LEMMA GrantStep ==
    ASSUME IInv, IInv', BrkInv', Created, NEW n, Fine(n), Takes(gca_malloc(heap, n), n)
    PROVE  [ArenaOf!Next]_live
<1> DEFINE m == gca_malloc(heap, n)
           p == m.ptr
<1>1. HeapInv(heap) /\ Held(heap, live)
  BY CreatedIs
<1>2. heap' = m.h /\ live' = IF p = NULL THEN live ELSE Given(p, n)
  BY DEF Takes
<1>3. /\ WF(m.h) /\ Apart(m.h, {})
      /\ p # NULL => \E b \in UsedOf(m.h) \ UsedOf(heap) : p = gca_header_to_data(b)
  BY <1>1, MallocKeeps DEF HeapInv
<1> HIDE DEF m, p
<1>4. CASE p # NULL
  <2>1. HeapInv(heap')
    BY <1>2, <1>3 DEF HeapInv
  <2>2. p \notin DOMAIN live
    <3>1. PICK b \in UsedOf(m.h) \ UsedOf(heap) : p = gca_header_to_data(b)
      BY <1>3, <1>4
    <3>2. b \in Nat
      BY <1>2, <2>1, <3>1, UsedTypes
    <3>3. gca_data_to_header(p) = b
      BY <3>1, <3>2, InverseIs
    <3> QED
      BY <1>1, <3>1, <3>3 DEF Held
  <2>3. p \in DOMAIN live' /\ live'[p] = n /\ DOMAIN live' = DOMAIN live \cup {p}
        /\ \A q \in DOMAIN live : live'[q] = live[q]
    BY <1>2, <1>4, <2>2 DEF Given
  <2>4. Held(heap', live') /\ Within(heap')
    BY <2>1, HeapIs, <2>3 DEF IInv, BrkInv, Created, Within, Held, NoHeap
  <2>5. ArenaOf!Vacant(live, p, live'[p])
    BY <2>1, <2>2, <2>3, <2>4, HeldApart DEF ArenaOf!Vacant
  <2>6. live' = ArenaOf!Hold(p, live'[p])
    BY <1>2, <1>4, <2>3 DEF Given, ArenaOf!Hold
  <2> QED
    BY <2>2, <2>3, <2>5, <2>6 DEF ArenaOf!Next, ArenaOf!Grant
<1> QED
  BY <1>2, <1>4

\* A realloc in place.
LEMMA ResizeStep ==
    ASSUME IInv, IInv', BrkInv', NEW p \in DOMAIN live, NEW n, live' = Given(p, n)
    PROVE  ArenaOf!Resize
<1>1. /\ DOMAIN live' = DOMAIN live /\ live'[p] = n
      /\ \A q \in DOMAIN live \ {p} : live'[q] = live[q]
  BY DEF Given
<1>2. HeapInv(heap') /\ Held(heap', live')
  BY <1>1 DEF IInv
<1>3. Within(heap')
  BY <1>2, HeapIs DEF BrkInv, Created, Within
<1>4. /\ ArenaOf!Bytes(p, live'[p]) \subseteq 0 .. HeapEnd - 1
      /\ \A q \in DOMAIN live \ {p} : ArenaOf!Bytes(p, live'[p]) \cap ArenaOf!Bytes(q, live[q]) = {}
  BY <1>1, <1>2, <1>3, HeldApart
<1>5. ArenaOf!Vacant(ArenaOf!Drop(p), p, live'[p])
  BY <1>4 DEF ArenaOf!Vacant, ArenaOf!Drop
<1>6. live' = ArenaOf!Hold(p, live'[p])
  BY <1>1 DEF Given, ArenaOf!Hold
<1> QED
  BY <1>1, <1>5, <1>6 DEF ArenaOf!Resize

\* A realloc by copying: the old region and the new one are apart, and the new
\* one is larger.
LEMMA CopyStep ==
    ASSUME IInv, BrkInv, NEW p \in DOMAIN live, NEW n \in GrowSizes \ {0},
           aligned(n) > heap.mem[gca_data_to_header(p)].curr.size,
           ReallocMove(p, n, gca_data_to_header(p), gca_coalesce_next(heap, gca_data_to_header(p)))
    PROVE  [ArenaOf!Next]_live
<1> DEFINE b == gca_data_to_header(p)
           g == gca_coalesce_next(heap, b)
           m == gca_malloc(g, n)
           f == m.h
           q == m.ptr
<1>1. HeapInv(heap) /\ Held(heap, live) /\ Fine(n) /\ n \in 0 .. SIZE_MAX
  BY CreatedIs, FineSizes DEF Fine
<1>2. /\ b \in UsedOf(heap) /\ HeapInv(g) /\ UsedOf(g) = UsedOf(heap) /\ Held(g, live)
  BY <1>1, GrownIs
<1>3. IF q = NULL
      THEN live' = live
      ELSE live' = [a \in (DOMAIN live \ {p}) \cup {q} |-> IF a = q THEN n ELSE live[a]]
  BY DEF ReallocMove
<1>4. Within(f)
  <2>1. DOMAIN heap = Fields /\ Within(heap)
    BY <1>1, HeapIs DEF BrkInv, Created
  <2>2. DOMAIN g = Fields /\ Within(g)
    BY <2>1, BrkCoalesced, WithinSame DEF BrkSame
  <2> HIDE DEF g
  <2> QED
    BY <2>2, MallocWithin
<1> HIDE DEF g
<1>5. /\ WF(f) /\ Apart(f, {})
      /\ \A a \in UsedOf(g) : f.mem[a].curr = g.mem[a].curr
      /\ q # NULL => \E c \in UsedOf(f) \ UsedOf(g) :
               /\ q = gca_header_to_data(c)
               /\ UsedOf(f) = UsedOf(g) \cup {c} /\ f.mem[c].curr.size >= n
  BY <1>1, <1>2, MallocKeeps DEF HeapInv
<1>6. live[p] \in Nat /\ live[p] < n
  <2>1. live[p] \in Nat /\ live[p] <= heap.mem[b].curr.size
    BY <1>1 DEF Held
  <2>2. Tags(heap) /\ b \in BlocksOf(heap) /\ heap.mem[b].curr.size \in Nat
    BY <1>1, <1>2, UsedTypes
  <2> HIDE DEF b
  <2>3. heap.mem[b].curr.size < aligned(n)
    BY <1>1, <2>2, AlignedIs DEF b
  <2>4. heap.mem[b].curr.size < n
    BY <1>1, <2>2, <2>3, SmallerIs
  <2> QED
    BY <1>1, <2>1, <2>2, <2>4
<1> HIDE DEF m, b, f, q
<1>7. CASE q # NULL
  <2> DEFINE l == [a \in DOMAIN live \cup {q} |-> IF a = q THEN n ELSE live[a]]
  <2>1. HeapInv(f) /\ n \in Nat
    BY <1>1, <1>5 DEF HeapInv
  <2>2. PICK c \in UsedOf(f) \ UsedOf(g) :
           q = gca_header_to_data(c) /\ UsedOf(f) = UsedOf(g) \cup {c} /\ f.mem[c].curr.size >= n
    BY <1>5, <1>7
  <2>3. c \in Nat /\ f.mem[c].curr.size \in Nat
    BY <2>1, <2>2, UsedTypes
  <2>4. Held(f, l)
    BY <1>2, <1>5, <2>1, <2>2, <2>3, HeldGiven
  <2>5. q \notin DOMAIN live
    <3>1. gca_data_to_header(q) = c
      BY <2>2, <2>3, InverseIs
    <3> QED
      BY <1>2, <2>2, <3>1 DEF Held
  <2>6. DOMAIN l = DOMAIN live \cup {q} /\ l[q] = n /\ \A a \in DOMAIN live : l[a] = live[a]
    BY <2>5
  <2> HIDE DEF l
  <2>7. ArenaOf!Vacant(live, q, n)
    BY <1>4, <2>1, <2>4, <2>5, <2>6, HeldApart DEF ArenaOf!Vacant
  <2>8. /\ q \in DOMAIN live' /\ live'[q] = n
        /\ live' = [a \in (DOMAIN live \ {p}) \cup {q} |-> IF a = q THEN live'[q] ELSE live[a]]
    BY <1>3, <1>7
  <2>9. live'[q] > live[p]
    BY <1>6, <2>1, <2>8
  <2>10. ArenaOf!Move
    BY <2>5, <2>7, <2>8, <2>9 DEF ArenaOf!Move
  <2> QED
    BY <2>10 DEF ArenaOf!Next
<1> QED
  BY <1>3, <1>7

\* Every step of the allocator is a step of the arena, or none.
LEMMA ArenaStep ==
    ASSUME IInv, BrkInv, IInv', BrkInv', [Next]_vars
    PROVE  [ArenaOf!Next]_live
<1>1. CASE UNCHANGED vars
  BY <1>1 DEF vars
<1>2. ASSUME NEW heapSize \in HeapSizes, CreateHeap(heapSize) PROVE [ArenaOf!Next]_live
  BY <1>2 DEF CreateHeap
<1>3. CASE gca_destroy
  <2>1. live' = [p \in {} |-> 0]
    BY <1>3 DEF gca_destroy
  <2> QED
    BY <2>1 DEF ArenaOf!Next, ArenaOf!Reset
<1>4. ASSUME NEW n \in Sizes, Malloc(n) PROVE [ArenaOf!Next]_live
  BY <1>4, GrantStep, FineSizes DEF Malloc
<1>5. ASSUME NEW n \in GrowSizes, ReallocNull(n) PROVE [ArenaOf!Next]_live
  BY <1>5, GrantStep, FineSizes DEF ReallocNull, Malloc
<1>6. ASSUME NEW num \in Counts, NEW size \in Sizes, gca_calloc(num, size) PROVE [ArenaOf!Next]_live
  <2> DEFINE n == num * size
  <2>1. Created /\ Takes(gca_malloc(heap, n), n) /\ size # 0 /\ num <= SIZE_MAX \div size
    BY <1>6 DEF gca_calloc
  <2>2. Fine(n)
    BY <2>1, FineSizes
  <2> HIDE DEF n
  <2> QED
    BY <2>1, <2>2, GrantStep
<1>7. ASSUME NEW p \in DOMAIN live, Free(p) PROVE [ArenaOf!Next]_live
  <2>1. live' = ArenaOf!Drop(p)
    BY <1>7 DEF Free, Without, ArenaOf!Drop
  <2> QED
    BY <2>1 DEF ArenaOf!Next, ArenaOf!Return
<1>8. ASSUME NEW p \in DOMAIN live, NEW n \in GrowSizes \ {0}, Realloc(p, n) PROVE [ArenaOf!Next]_live
  <2> DEFINE b == gca_data_to_header(p)
             g == gca_coalesce_next(heap, b)
  <2>1. CASE live' = Given(p, n)
    BY <2>1, ResizeStep DEF ArenaOf!Next
  <2>2. CASE aligned(n) > heap.mem[b].curr.size /\ ReallocMove(p, n, b, g)
    BY <2>2, CopyStep
  <2> QED
    BY <1>8, <2>1, <2>2 DEF Realloc, ReallocShrink, ReallocGrow, ReallocExtend
<1> QED
  BY <1>1, <1>2, <1>3, <1>4, <1>5, <1>6, <1>7, <1>8 DEF Next

\* The allocator implements the arena for any mapping, page size and requests:
\* what gca_malloc, gca_calloc and gca_realloc give out lies inside the mapping,
\* apart from every other region held and from every region's header, and stays
\* as it is until its client frees it or has it reallocated.
THEOREM AllocatorIsArena == Spec => ImplementsArena
<1>1. Init => ArenaOf!Init
  BY DEF Init, ArenaOf!Init
<1>2. Init => BrkInv
  BY DEF Init, BrkInv, Created, NoHeap
<1>3. IInv /\ BrkInv /\ [Next]_vars => BrkInv'
  BY NextWithin
<1>4. IInv /\ BrkInv /\ IInv' /\ BrkInv' /\ [Next]_vars => [ArenaOf!Next]_live
  BY ArenaStep
<1> QED
  BY <1>1, <1>2, <1>3, <1>4, Invariant, PTL DEF Spec, ImplementsArena, ArenaOf!Spec
=============================================================================
