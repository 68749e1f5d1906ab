----------------------------- MODULE HTFH_proof -----------------------------
(***************************************************************************)
(* For any widths of the classes, pool, threads and requests: the blocks   *)
(* tile the pool, their flags, the free lists and the bitmaps over them    *)
(* stay exact and the search by class is right through every malloc,       *)
(* calloc, memalign, free and realloc that does not grow in place, and the *)
(* allocator implements the arena.                                         *)
(***************************************************************************)
EXTENDS HTFH, Induction, FiniteSetTheorems

-----------------------------------------------------------------------------
(* Powers of two                                                           *)

\* The constants' ranges, and what htfh.h derives from them.
LEMMA Widths ==
    /\ SizeBits \in Nat /\ SL_INDEX_COUNT_LOG2 \in Nat \ {0} /\ ALIGN_SIZE_LOG2 \in {2, 3}
    /\ FL_INDEX_MAX \in Nat /\ FL_INDEX_MAX < SizeBits
    /\ FL_INDEX_SHIFT = SL_INDEX_COUNT_LOG2 + ALIGN_SIZE_LOG2
    /\ FL_INDEX_SHIFT \in Nat /\ FL_INDEX_SHIFT < FL_INDEX_MAX
    /\ FL_INDEX_COUNT = FL_INDEX_MAX - FL_INDEX_SHIFT + 1 /\ FL_INDEX_COUNT \in Nat
BY ConstantsAssumption DEF FL_INDEX_SHIFT, FL_INDEX_COUNT

\* Doubling within size_t.
LEMMA Double ==
    ASSUME NEW k \in 0 .. SizeBits
    PROVE  2 ^ (k + 1) = 2 * 2 ^ k /\ 2 ^ k \in Int
<1>1. 2 ^ k \in Int
  BY Widths
<1> QED
  BY <1>1, PowersAssumption

\* Powers of two are positive,
LEMMA PowPositive ==
    ASSUME NEW k \in 0 .. SizeBits + 1
    PROVE  2 ^ k \in Nat \ {0}
<1> DEFINE S == {n \in Nat : n <= SizeBits + 1 => 2 ^ n \in Nat \ {0}}
<1>1. 0 \in S
  OBVIOUS
<1>2. ASSUME NEW n \in Nat, n \in S PROVE n + 1 \in S
  <2> SUFFICES ASSUME n + 1 <= SizeBits + 1 PROVE 2 ^ (n + 1) \in Nat \ {0}
    OBVIOUS
  <2>1. n \in 0 .. SizeBits /\ n <= SizeBits + 1
    BY Widths
  <2>2. 2 ^ n \in Nat \ {0}
    BY <1>2, <2>1
  <2>3. 2 ^ (n + 1) = 2 * 2 ^ n
    BY <2>1, Double
  <2> QED
    BY <2>2, <2>3
<1> HIDE DEF S
<1>3. Nat \subseteq S
  BY <1>1, <1>2, SetInduction
<1>4. k \in Nat /\ k <= SizeBits + 1
  BY Widths
<1> QED
  BY <1>3, <1>4 DEF S

\* multiply as their exponents add,
LEMMA PowSum ==
    ASSUME NEW j \in Nat, NEW k \in Nat, j + k <= SizeBits + 1
    PROVE  2 ^ (j + k) = 2 ^ j * 2 ^ k
<1> DEFINE S == {n \in Nat : j + n <= SizeBits + 1 => 2 ^ (j + n) = 2 ^ j * 2 ^ n}
<1>1. 0 \in S
  <2>1. 2 ^ j \in Int /\ 2 ^ 0 = 1 /\ j + 0 = j
    OBVIOUS
  <2> QED
    BY <2>1
<1>2. ASSUME NEW n \in Nat, n \in S PROVE n + 1 \in S
  <2> SUFFICES ASSUME j + (n + 1) <= SizeBits + 1 PROVE 2 ^ (j + (n + 1)) = 2 ^ j * 2 ^ (n + 1)
    OBVIOUS
  <2>1. n \in 0 .. SizeBits /\ j + n \in 0 .. SizeBits /\ j + n <= SizeBits + 1 /\ j + (n + 1) = (j + n) + 1
    BY Widths
  <2>2. 2 ^ (j + n) = 2 ^ j * 2 ^ n
    BY <1>2, <2>1
  <2>3. 2 ^ ((j + n) + 1) = 2 * 2 ^ (j + n) /\ 2 ^ (n + 1) = 2 * 2 ^ n
    BY <2>1, Double
  <2>4. 2 ^ n \in Int /\ 2 ^ j \in Int
    OBVIOUS
  <2> DEFINE x == 2 ^ j
             y == 2 ^ n
  <2>5. 2 ^ (j + (n + 1)) = 2 * (x * y) /\ 2 ^ (n + 1) = 2 * y
    BY <2>1, <2>2, <2>3
  <2>6. x \in Int /\ y \in Int
    BY <2>4
  <2> HIDE DEF x, y
  <2>7. 2 * (x * y) = x * (2 * y)
    BY <2>6
  <2> QED
    BY <2>5, <2>7 DEF x
<1> HIDE DEF S
<1>3. Nat \subseteq S
  BY <1>1, <1>2, SetInduction
<1> QED
  BY <1>3 DEF S

\* and grow with their exponents.
LEMMA PowMonotone ==
    ASSUME NEW j \in Nat, NEW k \in Nat, j <= k, k <= SizeBits + 1
    PROVE  2 ^ j <= 2 ^ k
<1> DEFINE d == k - j
           x == 2 ^ j
           y == 2 ^ d
<1>1. d \in Nat /\ j + d = k /\ d \in 0 .. SizeBits + 1 /\ j \in 0 .. SizeBits + 1 /\ j + d <= SizeBits + 1
  BY Widths
<1> HIDE DEF d
<1>2. x \in Nat \ {0} /\ y \in Nat \ {0} /\ 2 ^ k = x * y
  <2>1. x \in Nat \ {0} /\ y \in Nat \ {0}
    BY <1>1, PowPositive
  <2>2. 2 ^ (j + d) = x * y
    BY <1>1, PowSum
  <2> QED
    BY <1>1, <2>1, <2>2
<1> HIDE DEF x, y
<1>3. x * y >= x
  BY <1>2
<1> QED
  BY <1>2, <1>3 DEF x

-----------------------------------------------------------------------------
(* Size classes                                                            *)

\* what the size constants of constants.h and block.h come to
LEMMA Constants ==
    /\ ALIGN_SIZE \in {4, 8}
    /\ SL_INDEX_COUNT \in Nat /\ SL_INDEX_COUNT >= 2
    /\ SMALL_BLOCK_SIZE = SL_INDEX_COUNT * ALIGN_SIZE /\ SMALL_BLOCK_SIZE \in Nat
    /\ SMALL_BLOCK_SIZE = 2 ^ FL_INDEX_SHIFT
    /\ block_size_max \in Nat /\ 2 * SMALL_BLOCK_SIZE <= block_size_max
    /\ 2 ^ SizeBits \in Nat /\ 2 * block_size_max <= 2 ^ SizeBits
    /\ FL_INDEX_COUNT >= 2
<1>1. ALIGN_SIZE \in {4, 8}
  <2>1. CASE ALIGN_SIZE_LOG2 = 2
    BY <2>1 DEF ALIGN_SIZE
  <2>2. CASE ALIGN_SIZE_LOG2 = 3
    BY <2>2 DEF ALIGN_SIZE
  <2> QED
    BY <2>1, <2>2, Widths
<1>2. SL_INDEX_COUNT \in Nat \ {0}
  <2>1. SL_INDEX_COUNT_LOG2 \in 0 .. SizeBits + 1
    BY Widths
  <2> QED
    BY <2>1, PowPositive DEF SL_INDEX_COUNT
<1>3. SL_INDEX_COUNT >= 2
  <2>1. 1 \in Nat /\ 1 <= SL_INDEX_COUNT_LOG2 /\ SL_INDEX_COUNT_LOG2 <= SizeBits + 1 /\ SL_INDEX_COUNT_LOG2 \in Nat
    BY Widths
  <2>2. 2 ^ 1 <= 2 ^ SL_INDEX_COUNT_LOG2
    BY <2>1, PowMonotone
  <2>3. 2 ^ 1 = 2
    OBVIOUS
  <2> QED
    BY <1>2, <2>2, <2>3 DEF SL_INDEX_COUNT
<1>4. SMALL_BLOCK_SIZE = SL_INDEX_COUNT * ALIGN_SIZE
  <2>1. /\ SL_INDEX_COUNT_LOG2 \in Nat /\ ALIGN_SIZE_LOG2 \in Nat
        /\ SL_INDEX_COUNT_LOG2 + ALIGN_SIZE_LOG2 <= SizeBits + 1
    BY Widths
  <2> QED
    BY <2>1, PowSum DEF SL_INDEX_COUNT, ALIGN_SIZE, SMALL_BLOCK_SIZE, FL_INDEX_SHIFT
<1>5. SMALL_BLOCK_SIZE \in Nat
  BY <1>1, <1>2, <1>4
<1>6. block_size_max \in Nat /\ 2 * SMALL_BLOCK_SIZE <= block_size_max
  <2>1. FL_INDEX_SHIFT \in 0 .. SizeBits /\ FL_INDEX_SHIFT + 1 \in Nat
        /\ FL_INDEX_SHIFT + 1 <= FL_INDEX_MAX /\ FL_INDEX_MAX \in 0 .. SizeBits + 1
        /\ FL_INDEX_MAX \in Nat /\ FL_INDEX_MAX <= SizeBits + 1
    BY Widths
  <2>2. 2 ^ (FL_INDEX_SHIFT + 1) <= 2 ^ FL_INDEX_MAX /\ 2 ^ (FL_INDEX_SHIFT + 1) = 2 * 2 ^ FL_INDEX_SHIFT
    BY <2>1, PowMonotone, Double
  <2>3. 2 ^ FL_INDEX_MAX \in Nat
    BY <2>1, PowPositive
  <2> QED
    BY <2>2, <2>3 DEF SMALL_BLOCK_SIZE, block_size_max
<1>7. 2 ^ SizeBits \in Nat /\ 2 * block_size_max <= 2 ^ SizeBits
  <2>1. FL_INDEX_MAX \in 0 .. SizeBits /\ FL_INDEX_MAX + 1 \in Nat
        /\ FL_INDEX_MAX + 1 <= SizeBits /\ SizeBits \in 0 .. SizeBits + 1
        /\ SizeBits \in Nat /\ SizeBits <= SizeBits + 1
    BY Widths
  <2>2. 2 ^ (FL_INDEX_MAX + 1) <= 2 ^ SizeBits /\ 2 ^ (FL_INDEX_MAX + 1) = 2 * 2 ^ FL_INDEX_MAX
    BY <2>1, PowMonotone, Double
  <2>3. 2 ^ SizeBits \in Nat
    BY <2>1, PowPositive
  <2> QED
    BY <2>2, <2>3 DEF block_size_max
<1>8. FL_INDEX_COUNT >= 2
  BY Widths
<1> QED
  BY <1>1, <1>2, <1>3, <1>4, <1>5, <1>6, <1>7, <1>8 DEF SMALL_BLOCK_SIZE

\* htfh_fls answers the highest bit.
LEMMA FlsIs ==
    ASSUME NEW n \in Nat \ {0}, n < 2 ^ (SizeBits + 1)
    PROVE  LET f == htfh_fls(n)
           IN  /\ f \in 0 .. SizeBits /\ 2 ^ f <= n /\ n < 2 ^ (f + 1)
               /\ 2 ^ f \in Nat \ {0} /\ 2 ^ (f + 1) = 2 * 2 ^ f
<1> DEFINE T == {k \in Nat : k <= SizeBits + 1 /\ n < 2 ^ k}
           P(k) == 2 ^ k <= n /\ n < 2 ^ (k + 1)
<1>1. T \in SUBSET Nat /\ SizeBits + 1 \in T
  BY Widths
<1>2. PICK m \in T : \A j \in T : m <= j
  BY <1>1, LeastNat
<1>3. m \in Nat /\ m <= SizeBits + 1 /\ n < 2 ^ m
  BY <1>2
<1>4. m # 0
  <2>1. ~(n < 2 ^ 0)
    OBVIOUS
  <2> QED
    BY <1>3, <2>1
<1> DEFINE q == m - 1
<1>5. q \in 0 .. SizeBits /\ q \in Nat /\ q + 1 = m /\ q < m /\ q <= SizeBits + 1
  BY <1>3, <1>4, Widths
<1> HIDE DEF q
<1>6. q \notin T
  BY <1>2, <1>3, <1>5
<1>7. 2 ^ q <= n
  BY <1>5, <1>6
<1>8. P(q)
  BY <1>3, <1>5, <1>7
<1>9. htfh_fls(n) \in 0 .. SizeBits /\ P(htfh_fls(n))
  BY <1>5, <1>8 DEF htfh_fls
<1> DEFINE f == htfh_fls(n)
<1>10. f \in 0 .. SizeBits /\ 2 ^ f <= n /\ n < 2 ^ (f + 1)
  BY <1>9
<1> HIDE DEF f
<1>11. 2 ^ (f + 1) = 2 * 2 ^ f /\ 2 ^ f \in Nat \ {0}
  BY <1>10, Double, PowPositive
<1> QED
  BY <1>10, <1>11 DEF f

\* Division rounds down.
LEMMA DivIs ==
    ASSUME NEW x \in Nat, NEW u \in Nat \ {0}
    PROVE  x \div u \in Nat /\ u * (x \div u) <= x /\ x < u * (x \div u) + u
<1> DEFINE q == x \div u
           r == x % u
<1>1. q \in Int /\ r \in 0 .. u - 1 /\ x = u * q + r
  OBVIOUS
<1> HIDE DEF q, r
<1>2. q >= 0
  <2>1. ASSUME q < 0 PROVE FALSE
    <3>1. q + 1 <= 0
      BY <1>1, <2>1
    <3>2. u * (q + 1) <= 0
      BY <1>1, <3>1
    <3>3. u * (q + 1) = u * q + u
      BY <1>1
    <3> QED
      BY <1>1, <3>2, <3>3
  <2> QED
    BY <1>1, <2>1
<1>3. q \in Nat /\ u * q <= x /\ x < u * q + u
  BY <1>1, <1>2
<1> QED
  BY <1>3 DEF q

\* Bounds on a quotient from below,
LEMMA DivAtLeast ==
    ASSUME NEW x \in Nat, NEW u \in Nat \ {0}, NEW k \in Nat, u * k <= x
    PROVE  k <= x \div u
<1> DEFINE q == x \div u
<1>1. q \in Nat /\ x < u * q + u
  BY DivIs
<1> HIDE DEF q
<1>2. ASSUME q < k PROVE FALSE
  <2>1. q + 1 <= k
    BY <1>1, <1>2
  <2>2. u * (q + 1) <= u * k
    BY <1>1, <2>1
  <2>3. u * (q + 1) = u * q + u
    BY <1>1
  <2>4. u * q \in Nat /\ u * k \in Nat
    BY <1>1
  <2> QED
    BY <1>1, <2>2, <2>3, <2>4
<1>3. k <= q
  BY <1>1, <1>2
<1> QED
  BY <1>3 DEF q

\* from above,
LEMMA DivBelow ==
    ASSUME NEW x \in Nat, NEW u \in Nat \ {0}, NEW k \in Nat, x < u * k
    PROVE  x \div u < k
<1> DEFINE q == x \div u
<1>1. q \in Nat /\ u * q <= x
  BY DivIs
<1> HIDE DEF q
<1>2. ASSUME k <= q PROVE FALSE
  <2>1. u * k <= u * q
    BY <1>1, <1>2
  <2>2. u * q \in Nat /\ u * k \in Nat
    BY <1>1
  <2> QED
    BY <1>1, <2>1, <2>2
<1>3. q < k
  BY <1>1, <1>2
<1> QED
  BY <1>3 DEF q

\* and in order.
LEMMA DivMonotone ==
    ASSUME NEW x \in Nat, NEW y \in Nat, NEW u \in Nat \ {0}, x <= y
    PROVE  x \div u <= y \div u
<1> DEFINE q == x \div u
<1>1. q \in Nat /\ u * q <= x
  BY DivIs
<1> HIDE DEF q
<1>2. u * q \in Nat
  BY <1>1
<1>3. u * q <= y
  BY <1>1, <1>2
<1> QED
  BY <1>1, <1>3, DivAtLeast DEF q

\* A small size is kept in the first row, by its multiple of ALIGN_SIZE.
LEMMA SmallClass ==
    ASSUME NEW n \in Nat, n < SMALL_BLOCK_SIZE
    PROVE  /\ mapping_insert(n) = <<0, n \div ALIGN_SIZE>>
           /\ n \div ALIGN_SIZE \in SLs /\ 0 \in FLs
<1>1. ALIGN_SIZE \in Nat \ {0} /\ SL_INDEX_COUNT \in Nat /\ n < ALIGN_SIZE * SL_INDEX_COUNT
  BY Constants
<1>2. n \div ALIGN_SIZE \in Nat /\ n \div ALIGN_SIZE < SL_INDEX_COUNT
  BY <1>1, DivIs, DivBelow
<1>3. 0 \in FLs
  BY Widths, Constants DEF FLs
<1> QED
  BY <1>1, <1>2, <1>3 DEF mapping_insert, SLs

\* a second-level class of sizes with highest bit f is u bytes wide
Unit(f) == 2 ^ (f - SL_INDEX_COUNT_LOG2)

\* A row's lists are equally wide, a multiple of ALIGN_SIZE each.
LEMMA UnitIs ==
    ASSUME NEW f \in FL_INDEX_SHIFT .. SizeBits
    PROVE  /\ Unit(f) \in Nat \ {0} /\ 2 ^ f = Unit(f) * SL_INDEX_COUNT
           /\ \E w \in Nat : Unit(f) = w * ALIGN_SIZE
<1> DEFINE e == f - SL_INDEX_COUNT_LOG2
           d == e - ALIGN_SIZE_LOG2
<1>1. /\ e \in Nat /\ e \in 0 .. SizeBits + 1 /\ e + SL_INDEX_COUNT_LOG2 = f
      /\ d \in Nat /\ d \in 0 .. SizeBits + 1 /\ d + ALIGN_SIZE_LOG2 = e
      /\ e + SL_INDEX_COUNT_LOG2 <= SizeBits + 1 /\ d + ALIGN_SIZE_LOG2 <= SizeBits + 1
      /\ ALIGN_SIZE_LOG2 \in Nat /\ SL_INDEX_COUNT_LOG2 \in Nat
  BY Widths
<1>2. Unit(f) = 2 ^ e
  BY DEF Unit
<1> HIDE DEF e, d
<1>3. 2 ^ e \in Nat \ {0} /\ 2 ^ d \in Nat \ {0}
  BY <1>1, PowPositive
<1>4. 2 ^ (e + SL_INDEX_COUNT_LOG2) = 2 ^ e * 2 ^ SL_INDEX_COUNT_LOG2
  BY <1>1, PowSum
<1>5. 2 ^ (d + ALIGN_SIZE_LOG2) = 2 ^ d * 2 ^ ALIGN_SIZE_LOG2
  BY <1>1, PowSum
<1> QED
  BY <1>1, <1>2, <1>3, <1>4, <1>5 DEF SL_INDEX_COUNT, ALIGN_SIZE

\* A large size is kept in the row of its highest bit, inside the arrays when
\* it is below block_size_max.
LEMMA LargeClass ==
    ASSUME NEW n \in Nat, n >= SMALL_BLOCK_SIZE, n < 2 ^ (SizeBits + 1)
    PROVE  LET f == htfh_fls(n)
               u == Unit(f)
           IN  /\ f \in FL_INDEX_SHIFT .. SizeBits /\ u \in Nat \ {0}
               /\ u * SL_INDEX_COUNT <= n /\ n < 2 * (u * SL_INDEX_COUNT)
               /\ mapping_insert(n) = <<f - (FL_INDEX_SHIFT - 1), (n \div u) - SL_INDEX_COUNT>>
               /\ (n \div u) - SL_INDEX_COUNT \in SLs
               /\ n < block_size_max => f < FL_INDEX_MAX /\ f - (FL_INDEX_SHIFT - 1) \in FLs
<1> DEFINE f == htfh_fls(n)
           u == Unit(f)
           L == SL_INDEX_COUNT
<1>1. SMALL_BLOCK_SIZE \in Nat /\ SMALL_BLOCK_SIZE = 2 ^ FL_INDEX_SHIFT /\ n # 0 /\ L \in Nat /\ L >= 2
  BY Constants
<1>2. /\ f \in 0 .. SizeBits /\ 2 ^ f <= n /\ n < 2 ^ (f + 1)
      /\ 2 ^ f \in Nat \ {0} /\ 2 ^ (f + 1) = 2 * 2 ^ f
  BY <1>1, FlsIs
<1>3. mapping_insert(n) = <<f - (FL_INDEX_SHIFT - 1), (n \div u) - L>>
  <2>1. ~(n < SMALL_BLOCK_SIZE)
    BY <1>1
  <2> QED
    BY <2>1, Zenon DEF mapping_insert, Unit
<1> HIDE DEF f
<1>4. f >= FL_INDEX_SHIFT
  <2>1. ASSUME f < FL_INDEX_SHIFT PROVE FALSE
    <3>1. f + 1 \in Nat /\ f + 1 <= FL_INDEX_SHIFT /\ FL_INDEX_SHIFT <= SizeBits + 1 /\ FL_INDEX_SHIFT \in Nat
      BY <1>2, <2>1, Widths
    <3>2. 2 ^ (f + 1) <= 2 ^ FL_INDEX_SHIFT
      BY <3>1, PowMonotone
    <3> QED
      BY <1>1, <1>2, <3>2
  <2> QED
    BY <1>2, <2>1, Widths
<1>5. f \in FL_INDEX_SHIFT .. SizeBits
  BY <1>2, <1>4, Widths
<1>6. u \in Nat \ {0} /\ 2 ^ f = u * L
  BY <1>5, UnitIs
<1> HIDE DEF u, L
<1>7. u * L \in Nat /\ u * L <= n /\ n < 2 * (u * L) /\ n < u * (2 * L)
  <2>1. 2 * (u * L) = u * (2 * L)
    BY <1>1, <1>6
  <2> QED
    BY <1>1, <1>2, <1>6, <2>1
<1>8. n \div u \in Nat /\ L <= n \div u /\ n \div u < 2 * L
  <2>1. 2 * L \in Nat
    BY <1>1
  <2> QED
    BY <1>1, <1>6, <1>7, <2>1, DivIs, DivAtLeast, DivBelow
<1>9. (n \div u) - L \in SLs
  <2>1. (n \div u) - L \in 0 .. L - 1
    BY <1>1, <1>8
  <2> QED
    BY <2>1 DEF SLs, L
<1>10. ASSUME n < block_size_max PROVE f < FL_INDEX_MAX /\ f - (FL_INDEX_SHIFT - 1) \in FLs
  <2>1. ASSUME FL_INDEX_MAX <= f PROVE FALSE
    <3>1. FL_INDEX_MAX \in Nat /\ f \in Nat /\ f <= SizeBits + 1
      BY <1>2, Widths
    <3>2. 2 ^ FL_INDEX_MAX <= 2 ^ f
      BY <2>1, <3>1, PowMonotone
    <3> QED
      BY <1>2, <1>10, <3>2, Constants DEF block_size_max
  <2>2. f < FL_INDEX_MAX
    BY <1>2, <2>1, Widths
  <2> QED
    BY <1>5, <2>2, Widths DEF FLs
<1> QED
  BY <1>3, <1>5, <1>6, <1>7, <1>9, <1>10 DEF f, u, L

\* every block of a heap has a list
LEMMA ClassIs ==
    ASSUME NEW n \in Nat, n < block_size_max
    PROVE  mapping_insert(n) \in FLs \X SLs
<1>1. CASE n < SMALL_BLOCK_SIZE
  BY <1>1, SmallClass
<1>2. CASE ~(n < SMALL_BLOCK_SIZE)
  <2>1. n >= SMALL_BLOCK_SIZE
    BY <1>2, Constants
  <2>2. n < 2 ^ (SizeBits + 1)
    <3>1. SizeBits \in 0 .. SizeBits
      BY Widths
    <3>2. 2 ^ (SizeBits + 1) = 2 * 2 ^ SizeBits
      BY <3>1, Double
    <3> QED
      BY <3>2, Constants
  <2> QED
    BY <2>1, <2>2, LargeClass
<1> QED
  BY <1>1, <1>2

\* the order in which controller_search_suitable_block looks at the lists
Before(c, d) == c[1] < d[1] \/ (c[1] = d[1] /\ c[2] <= d[2])

\* The highest bit grows with the number,
LEMMA BitsMonotone ==
    ASSUME NEW n \in Nat \ {0}, NEW m \in Nat, n <= m, m < 2 ^ (SizeBits + 1)
    PROVE  htfh_fls(n) <= htfh_fls(m)
<1> DEFINE f == htfh_fls(n)
           g == htfh_fls(m)
<1>1. n < 2 ^ (SizeBits + 1) /\ m # 0 /\ 2 ^ (SizeBits + 1) \in Int
  <2>1. SizeBits + 1 \in 0 .. SizeBits + 1
    BY Widths
  <2>2. 2 ^ (SizeBits + 1) \in Nat
    BY <2>1, PowPositive
  <2> QED
    BY <2>2
<1>2. f \in 0 .. SizeBits /\ 2 ^ f <= n /\ 2 ^ f \in Nat
  BY <1>1, FlsIs
<1>3. g \in 0 .. SizeBits /\ m < 2 ^ (g + 1) /\ 2 ^ (g + 1) = 2 * 2 ^ g /\ 2 ^ g \in Nat
  BY <1>1, FlsIs
<1> HIDE DEF f, g
<1>4. ASSUME g < f PROVE FALSE
  <2>1. g + 1 \in Nat /\ f \in Nat /\ g + 1 <= f /\ f <= SizeBits + 1
    BY <1>2, <1>3, <1>4, Widths
  <2>2. 2 ^ (g + 1) <= 2 ^ f
    BY <2>1, PowMonotone
  <2> QED
    BY <1>2, <1>3, <2>2
<1>5. f <= g
  BY <1>2, <1>3, <1>4, Widths
<1> QED
  BY <1>5 DEF f, g

\* A larger size has a later list, or the same.
LEMMA ClassMonotone ==
    ASSUME NEW n \in Nat, NEW m \in Nat, n <= m, m < 2 ^ (SizeBits + 1)
    PROVE  /\ mapping_insert(n)[1] \in Nat /\ mapping_insert(n)[2] \in SLs
           /\ mapping_insert(m)[1] \in Nat /\ mapping_insert(m)[2] \in SLs
           /\ Before(mapping_insert(n), mapping_insert(m))
<1>1. SMALL_BLOCK_SIZE \in Nat \ {0} /\ ALIGN_SIZE \in Nat \ {0} /\ FL_INDEX_SHIFT \in Nat /\ SizeBits \in Nat
      /\ SLs \subseteq Nat /\ SL_INDEX_COUNT \in Nat
  BY Constants, Widths DEF SLs
<1>2. CASE m < SMALL_BLOCK_SIZE
  <2>1. n < SMALL_BLOCK_SIZE
    BY <1>1, <1>2
  <2>2. /\ mapping_insert(m) = <<0, m \div ALIGN_SIZE>> /\ m \div ALIGN_SIZE \in SLs
        /\ mapping_insert(n) = <<0, n \div ALIGN_SIZE>> /\ n \div ALIGN_SIZE \in SLs
    BY <1>2, <2>1, SmallClass
  <2>3. n \div ALIGN_SIZE <= m \div ALIGN_SIZE
    BY <1>1, DivMonotone
  <2> QED
    BY <2>2, <2>3 DEF Before
<1>3. CASE ~(m < SMALL_BLOCK_SIZE)
  <2> DEFINE g == htfh_fls(m)
             s == (m \div Unit(g)) - SL_INDEX_COUNT
  <2>1. m >= SMALL_BLOCK_SIZE
    BY <1>1, <1>3
  <2>2. /\ g \in FL_INDEX_SHIFT .. SizeBits /\ s \in SLs
        /\ mapping_insert(m) = <<g - (FL_INDEX_SHIFT - 1), s>>
    BY <2>1, LargeClass
  <2> HIDE DEF g, s
  <2>3. mapping_insert(m)[1] = g - (FL_INDEX_SHIFT - 1) /\ mapping_insert(m)[2] \in SLs
    BY <2>2
  <2>4. CASE n < SMALL_BLOCK_SIZE
    <3>1. mapping_insert(n) = <<0, n \div ALIGN_SIZE>> /\ n \div ALIGN_SIZE \in SLs
      BY <2>4, SmallClass
    <3>2. g - (FL_INDEX_SHIFT - 1) \in Nat /\ 0 < g - (FL_INDEX_SHIFT - 1)
      BY <1>1, <2>2
    <3>3. mapping_insert(n)[1] = 0 /\ mapping_insert(n)[2] \in SLs
      BY <3>1
    <3> QED
      BY <2>3, <3>2, <3>3 DEF Before
  <2>5. CASE ~(n < SMALL_BLOCK_SIZE)
    <3> DEFINE f == htfh_fls(n)
               r == (n \div Unit(f)) - SL_INDEX_COUNT
    <3>1. n >= SMALL_BLOCK_SIZE /\ n < 2 ^ (SizeBits + 1) /\ n \in Nat \ {0}
      <4>1. SizeBits + 1 \in 0 .. SizeBits + 1
        BY <1>1
      <4>2. 2 ^ (SizeBits + 1) \in Nat
        BY <4>1, PowPositive
      <4> QED
        BY <1>1, <2>5, <4>2
    <3>2. /\ f \in FL_INDEX_SHIFT .. SizeBits /\ r \in SLs /\ Unit(f) \in Nat \ {0}
          /\ mapping_insert(n) = <<f - (FL_INDEX_SHIFT - 1), r>>
      BY <3>1, LargeClass
    <3>3. f <= g
      BY <3>1, BitsMonotone DEF g
    <3>4. f = g => r <= s
      <4>1. ASSUME f = g PROVE r <= s
        <5> DEFINE x == n \div Unit(f)
                   y == m \div Unit(f)
        <5>1. x <= y /\ x \in Nat /\ y \in Nat
          BY <3>2, DivMonotone, DivIs
        <5>2. r = x - SL_INDEX_COUNT /\ s = y - SL_INDEX_COUNT
          BY <4>1 DEF s
        <5> HIDE DEF x, y, f, r
        <5> QED
          BY <1>1, <5>1, <5>2
      <4> QED
        BY <4>1
    <3> HIDE DEF f, r
    <3>5. f - (FL_INDEX_SHIFT - 1) \in Nat /\ g - (FL_INDEX_SHIFT - 1) \in Nat
      BY <1>1, <2>2, <3>2
    <3>6. CASE f = g
      BY <2>2, <3>2, <3>4, <3>5, <3>6 DEF Before
    <3>7. CASE f < g
      <4>1. f - (FL_INDEX_SHIFT - 1) < g - (FL_INDEX_SHIFT - 1)
        BY <1>1, <2>2, <3>2, <3>7
      <4>2. mapping_insert(n)[1] = f - (FL_INDEX_SHIFT - 1) /\ mapping_insert(n)[2] \in SLs
        BY <3>2
      <4> QED
        BY <2>3, <3>5, <4>1, <4>2 DEF Before
    <3> QED
      BY <1>1, <2>2, <3>2, <3>3, <3>6, <3>7
  <2> QED
    BY <2>4, <2>5
<1> QED
  BY <1>2, <1>3

\* a size rounded up to the next list, as mapping_search rounds it
Rounded(n) ==
    IF n >= SMALL_BLOCK_SIZE THEN n + 2 ^ (htfh_fls(n) - SL_INDEX_COUNT_LOG2) - 1 ELSE n

\* mapping_search is mapping_insert of the size rounded up to its list's width.
LEMMA RoundedIs ==
    ASSUME NEW n \in Nat, n < block_size_max
    PROVE  /\ mapping_search(n) = mapping_insert(Rounded(n))
           /\ Rounded(n) \in Nat /\ n <= Rounded(n) /\ Rounded(n) < 2 ^ (SizeBits + 1)
           /\ n < 2 ^ (SizeBits + 1) /\ block_size_max <= 2 ^ (SizeBits + 1)
           /\ 2 ^ (SizeBits + 1) \in Nat
<1>1. 2 ^ (SizeBits + 1) = 2 * 2 ^ SizeBits
  <2>1. SizeBits \in 0 .. SizeBits
    BY Widths
  <2> QED
    BY <2>1, Double
<1>2. /\ SMALL_BLOCK_SIZE \in Nat /\ block_size_max \in Nat /\ 2 ^ SizeBits \in Nat
      /\ 2 * block_size_max <= 2 ^ SizeBits /\ SL_INDEX_COUNT \in Nat /\ SL_INDEX_COUNT >= 2
  BY Constants
<1>3. n < 2 ^ (SizeBits + 1) /\ block_size_max <= 2 ^ (SizeBits + 1) /\ 2 ^ (SizeBits + 1) \in Nat
  BY <1>1, <1>2
<1>4. mapping_search(n) = mapping_insert(Rounded(n))
  BY Zenon DEF mapping_search, Rounded
<1>5. CASE n >= SMALL_BLOCK_SIZE
  <2> DEFINE f == htfh_fls(n)
             u == Unit(f)
  <2>1. u \in Nat \ {0} /\ u * SL_INDEX_COUNT <= n
    BY <1>3, <1>5, LargeClass
  <2>2. Rounded(n) = n + u - 1
    BY <1>5 DEF Rounded, Unit
  <2> HIDE DEF u
  <2>3. u <= u * SL_INDEX_COUNT
    BY <1>2, <2>1
  <2> QED
    BY <1>1, <1>2, <1>3, <1>4, <2>1, <2>2, <2>3
<1>6. CASE ~(n >= SMALL_BLOCK_SIZE)
  <2>1. Rounded(n) = n
    BY <1>6 DEF Rounded
  <2> QED
    BY <1>3, <1>4, <2>1
<1> QED
  BY <1>5, <1>6

\* htfh_fls is the only bit that fits.
LEMMA FlsUnique ==
    ASSUME NEW f \in 0 .. SizeBits, NEW n \in Nat \ {0}, 2 ^ f <= n, n < 2 ^ (f + 1)
    PROVE  htfh_fls(n) = f
<1> DEFINE g == htfh_fls(n)
<1>1. f + 1 \in Nat /\ f \in Nat /\ SizeBits + 1 \in Nat /\ f + 1 <= SizeBits + 1 /\ SizeBits + 1 <= SizeBits + 1
      /\ SizeBits \in Nat
  BY Widths
<1>2. 2 ^ (f + 1) <= 2 ^ (SizeBits + 1)
  BY <1>1, PowMonotone
<1>3. 2 ^ f \in Int /\ 2 ^ (f + 1) \in Int /\ 2 ^ (SizeBits + 1) \in Int
  BY <1>1
<1>4. n < 2 ^ (SizeBits + 1)
  BY <1>2, <1>3
<1>5. g \in 0 .. SizeBits /\ 2 ^ g <= n /\ n < 2 ^ (g + 1)
  BY <1>4, FlsIs
<1> HIDE DEF g
<1>6. g + 1 \in Nat /\ g \in Nat /\ 2 ^ g \in Int /\ 2 ^ (g + 1) \in Int
  BY <1>1, <1>5
<1>7. ASSUME g < f PROVE FALSE
  <2>1. g + 1 <= f /\ f <= SizeBits + 1
    BY <1>1, <1>6, <1>7
  <2>2. 2 ^ (g + 1) <= 2 ^ f
    BY <1>1, <1>6, <2>1, PowMonotone
  <2> QED
    BY <1>3, <1>5, <1>6, <2>2
<1>8. ASSUME f < g PROVE FALSE
  <2>1. f + 1 <= g /\ g <= SizeBits + 1
    BY <1>1, <1>5, <1>6, <1>8
  <2>2. 2 ^ (f + 1) <= 2 ^ g
    BY <1>1, <1>6, <2>1, PowMonotone
  <2> QED
    BY <1>3, <1>5, <1>6, <2>2
<1>9. g = f
  BY <1>1, <1>6, <1>7, <1>8
<1> QED
  BY <1>9 DEF g

\* The sizes from the first to the last of a list share it.
LEMMA SameClass ==
    ASSUME NEW m \in Nat, m >= SMALL_BLOCK_SIZE, m < 2 ^ (SizeBits + 1),
           NEW e \in Nat,
           LET u == Unit(htfh_fls(m))
           IN  u * (m \div u) <= e /\ e < u * (m \div u) + u
    PROVE  mapping_insert(e) = mapping_insert(m) /\ htfh_fls(e) = htfh_fls(m)
<1> DEFINE f == htfh_fls(m)
           u == Unit(f)
           q == m \div u
           L == SL_INDEX_COUNT
<1>1. /\ f \in FL_INDEX_SHIFT .. SizeBits /\ u \in Nat \ {0}
      /\ u * L <= m /\ m < 2 * (u * L)
      /\ mapping_insert(m) = <<f - (FL_INDEX_SHIFT - 1), q - L>>
      /\ q - L \in SLs
  BY LargeClass
<1>2. u * q <= e /\ e < u * q + u
  OBVIOUS
<1> HIDE DEF f
<1>3. 2 ^ f = u * L /\ f \in 0 .. SizeBits /\ 2 ^ (f + 1) = 2 * 2 ^ f /\ L \in Nat /\ L >= 2
  <2>1. f \in 0 .. SizeBits
    BY <1>1, Widths
  <2> QED
    BY <1>1, <2>1, UnitIs, Double, Constants
<1> HIDE DEF u
<1>4. q \in Nat
  BY <1>1, DivIs
<1> HIDE DEF q
<1>5. L <= q /\ q + 1 <= 2 * L
  BY <1>1, <1>3, <1>4 DEF SLs, L
<1> HIDE DEF L
<1>6. u * L <= u * q /\ u * (q + 1) <= u * (2 * L) /\ u * (q + 1) = u * q + u
      /\ u * (2 * L) = 2 * (u * L) /\ u * q \in Nat /\ u * L \in Nat
  BY <1>1, <1>3, <1>4, <1>5
<1>7. 2 ^ f <= e /\ e < 2 ^ (f + 1)
  BY <1>1, <1>2, <1>3, <1>6
<1>8. SMALL_BLOCK_SIZE <= 2 ^ f /\ SMALL_BLOCK_SIZE \in Nat \ {0}
  <2>1. FL_INDEX_SHIFT \in Nat /\ f \in Nat /\ FL_INDEX_SHIFT <= f /\ f <= SizeBits + 1
    BY <1>1, Widths
  <2> QED
    BY <2>1, PowMonotone, Constants
<1>9. e # 0 /\ ~(e < SMALL_BLOCK_SIZE)
  BY <1>3, <1>6, <1>7, <1>8
<1>10. htfh_fls(e) = f
  BY <1>3, <1>7, <1>9, FlsUnique
<1>11. e \div u = q
  <2>1. q <= e \div u
    BY <1>1, <1>2, <1>4, DivAtLeast
  <2>2. e \div u < q + 1
    <3>1. e < u * (q + 1) /\ q + 1 \in Nat
      BY <1>2, <1>4, <1>6
    <3> QED
      BY <1>1, <3>1, DivBelow
  <2>3. e \div u \in Nat
    BY <1>1, DivIs
  <2> QED
    BY <1>4, <2>1, <2>2, <2>3
<1>12. mapping_insert(e) = <<f - (FL_INDEX_SHIFT - 1), (e \div u) - L>>
  <2> DEFINE F == htfh_fls(e)
  <2>1. mapping_insert(e) = <<F - (FL_INDEX_SHIFT - 1), (e \div Unit(F)) - L>>
    BY <1>9, Zenon DEF mapping_insert, Unit, L
  <2> HIDE DEF F
  <2>2. F = f
    BY <1>10 DEF F
  <2> QED
    BY <2>1, <2>2 DEF u
<1> QED
  BY <1>1, <1>10, <1>11, <1>12 DEF f, q

\* Every size in a list that mapping_search leads to is large enough.
LEMMA SearchSuffices ==
    ASSUME NEW n \in Nat, n < block_size_max, n % ALIGN_SIZE = 0,
           NEW m \in Nat, m < block_size_max, m % ALIGN_SIZE = 0,
           Before(mapping_search(n), mapping_insert(m))
    PROVE  n <= m
<1> SUFFICES ASSUME m < n PROVE FALSE
  OBVIOUS
<1> DEFINE N == Rounded(n)
<1>1. /\ mapping_search(n) = mapping_insert(N) /\ N \in Nat /\ n <= N /\ N < 2 ^ (SizeBits + 1)
      /\ n < 2 ^ (SizeBits + 1) /\ block_size_max <= 2 ^ (SizeBits + 1) /\ 2 ^ (SizeBits + 1) \in Nat
  BY RoundedIs
<1>2. m <= N /\ m < 2 ^ (SizeBits + 1)
  BY <1>1
<1>3. /\ mapping_insert(m)[1] \in Nat /\ mapping_insert(m)[2] \in SLs
      /\ mapping_insert(N)[1] \in Nat /\ mapping_insert(N)[2] \in SLs
      /\ Before(mapping_insert(m), mapping_insert(N))
  BY <1>1, <1>2, ClassMonotone
<1>4. SLs \subseteq Nat /\ SMALL_BLOCK_SIZE \in Nat \ {0} /\ ALIGN_SIZE \in {4, 8} /\ SL_INDEX_COUNT \in Nat
      /\ FL_INDEX_SHIFT \in Nat
  BY Constants, Widths DEF SLs
<1>5. mapping_insert(m)[1] = mapping_insert(N)[1] /\ mapping_insert(m)[2] = mapping_insert(N)[2]
  <2> DEFINE c == mapping_insert(m)
             d == mapping_insert(N)
  <2>1. /\ c[1] \in Nat /\ c[2] \in Nat /\ d[1] \in Nat /\ d[2] \in Nat
        /\ Before(c, d) /\ Before(d, c)
    BY <1>1, <1>3, <1>4
  <2> HIDE DEF c, d
  <2>2. c[1] = d[1] /\ c[2] = d[2]
    BY <2>1 DEF Before
  <2> QED
    BY <2>2 DEF c, d
<1>6. CASE n < SMALL_BLOCK_SIZE
  <2>1. N = n /\ m < SMALL_BLOCK_SIZE
    BY <1>4, <1>6 DEF Rounded
  <2>2. /\ mapping_insert(m) = <<0, m \div ALIGN_SIZE>> /\ mapping_insert(n) = <<0, n \div ALIGN_SIZE>>
    BY <1>6, <2>1, SmallClass
  <2>3. m \div ALIGN_SIZE = n \div ALIGN_SIZE
    BY <1>5, <2>1, <2>2
  <2>4. m = n
    BY <1>4, <2>3
  <2> QED
    BY <2>4
<1>7. CASE ~(n < SMALL_BLOCK_SIZE)
  <2> DEFINE f == htfh_fls(n)
             u == Unit(f)
             g == htfh_fls(N)
             U == Unit(g)
             q == N \div U
  <2>1. n >= SMALL_BLOCK_SIZE /\ N >= SMALL_BLOCK_SIZE
    BY <1>1, <1>4, <1>7
  <2>2. f \in FL_INDEX_SHIFT .. SizeBits /\ u \in Nat \ {0}
    BY <1>1, <2>1, LargeClass
  <2>3. N = n + u - 1
    BY <2>1 DEF Rounded, Unit
  <2> HIDE DEF N
  <2>4. /\ g \in FL_INDEX_SHIFT .. SizeBits /\ U \in Nat \ {0}
        /\ mapping_insert(N) = <<g - (FL_INDEX_SHIFT - 1), q - SL_INDEX_COUNT>>
    BY <1>1, <2>1, LargeClass
  <2>5. q \in Nat /\ U * q <= N /\ N < U * q + U
    BY <1>1, <2>4, DivIs
  <2>6. mapping_insert(N)[1] = g - (FL_INDEX_SHIFT - 1) /\ mapping_insert(N)[2] = q - SL_INDEX_COUNT
    BY <2>4
  <2> HIDE DEF f, u, g, U, q
  <2>7. ~(m < SMALL_BLOCK_SIZE)
    <3>1. ASSUME m < SMALL_BLOCK_SIZE PROVE FALSE
      <4>1. mapping_insert(m)[1] = 0
        BY <3>1, SmallClass
      <4> QED
        BY <1>4, <1>5, <2>4, <2>6, <4>1
    <3> QED
      BY <3>1
  <2> DEFINE F == htfh_fls(m)
             s == m \div Unit(F)
  <2>8. /\ F \in FL_INDEX_SHIFT .. SizeBits /\ Unit(F) \in Nat \ {0}
        /\ mapping_insert(m) = <<F - (FL_INDEX_SHIFT - 1), s - SL_INDEX_COUNT>>
    BY <1>2, <1>4, <2>7, LargeClass
  <2>9. s \in Nat /\ Unit(F) * s <= m
    BY <2>8, DivIs
  <2>10. mapping_insert(m)[1] = F - (FL_INDEX_SHIFT - 1) /\ mapping_insert(m)[2] = s - SL_INDEX_COUNT
    BY <2>8
  <2> HIDE DEF F, s
  <2>11. F = g /\ s = q
    BY <1>4, <1>5, <2>4, <2>5, <2>6, <2>8, <2>9, <2>10
  <2>12. U * q <= m /\ U * q \in Nat
    BY <2>4, <2>5, <2>9, <2>11 DEF U
  <2>13. CASE g = f
    <3>1. U = u
      BY <2>13 DEF U, u
    <3> QED
      BY <2>2, <2>3, <2>5, <2>12, <3>1
  <2>14. CASE g # f
    <3>1. f <= g
      <4>1. n \in Nat \ {0}
        BY <1>4, <2>1
      <4> QED
        BY <1>1, <4>1, BitsMonotone DEF f, g
    <3>2. f + 1 \in Nat /\ g \in Nat /\ f + 1 <= g /\ g <= SizeBits + 1
      BY <2>2, <2>4, <2>14, <3>1, Widths
    <3>3. 2 ^ (f + 1) <= 2 ^ g
      BY <3>2, PowMonotone
    <3>4. m \in Nat \ {0} /\ n \in Nat \ {0}
      BY <1>4, <2>1, <2>7
    <3>5. n < 2 ^ (f + 1) /\ 2 ^ g <= m
      BY <1>1, <1>2, <2>11, <3>4, FlsIs DEF f, F
    <3>6. 2 ^ (f + 1) \in Int /\ 2 ^ g \in Int
      BY <3>2
    <3> QED
      BY <3>3, <3>5, <3>6
  <2> QED
    BY <2>13, <2>14
<1> QED
  BY <1>6, <1>7

\* The search passes over no list with a larger size but that of the size.
LEMMA SearchMisses ==
    ASSUME NEW n \in Nat, NEW m \in Nat, n <= m, m < block_size_max
    PROVE  mapping_insert(m) = mapping_insert(n) \/ Before(mapping_search(n), mapping_insert(m))
<1> DEFINE N == Rounded(n)
<1>1. n < block_size_max
  BY Constants
<1>2. /\ mapping_search(n) = mapping_insert(N) /\ N \in Nat /\ n <= N /\ N < 2 ^ (SizeBits + 1)
      /\ n < 2 ^ (SizeBits + 1) /\ block_size_max <= 2 ^ (SizeBits + 1) /\ 2 ^ (SizeBits + 1) \in Nat
      /\ block_size_max \in Nat
  BY <1>1, RoundedIs, Constants
<1>3. m < 2 ^ (SizeBits + 1)
  BY <1>2
<1>4. CASE ~(n >= SMALL_BLOCK_SIZE)
  <2>1. N = n
    BY <1>4 DEF Rounded
  <2> QED
    BY <1>2, <1>3, <2>1, ClassMonotone
<1>5. CASE n >= SMALL_BLOCK_SIZE
  <2> SUFFICES ASSUME mapping_insert(m) # mapping_insert(n) PROVE Before(mapping_insert(N), mapping_insert(m))
    BY <1>2
  <2> DEFINE f == htfh_fls(n)
             u == Unit(f)
             q == n \div u
             g == htfh_fls(m)
             U == Unit(g)
             s == m \div U
             e == U * s + U - 1
             L == SL_INDEX_COUNT
  <2>1. m >= SMALL_BLOCK_SIZE /\ n \in Nat \ {0} /\ m \in Nat \ {0} /\ L \in Nat
    BY <1>5, Constants
  <2>2. /\ f \in FL_INDEX_SHIFT .. SizeBits /\ u \in Nat \ {0} /\ n < 2 * (u * L)
        /\ mapping_insert(n) = <<f - (FL_INDEX_SHIFT - 1), q - L>>
    BY <1>2, <1>5, LargeClass
  <2>3. /\ g \in FL_INDEX_SHIFT .. SizeBits /\ U \in Nat \ {0} /\ U * L <= m
        /\ mapping_insert(m) = <<g - (FL_INDEX_SHIFT - 1), s - L>>
    BY <1>3, <2>1, LargeClass
  <2>4. N = n + u - 1
    BY <1>5 DEF Rounded, Unit
  <2>5. q \in Nat /\ n < u * q + u
    BY <2>2, DivIs
  <2>6. s \in Nat /\ U * s <= m /\ m < U * s + U
    BY <2>3, DivIs
  <2>7. f <= g
    BY <1>3, <2>1, BitsMonotone
  <2>8. L <= s
    BY <2>1, <2>3, DivAtLeast
  <2> HIDE DEF N, L
  <2>9. q <= s \/ f # g
    BY <2>2, DivMonotone
  <2>10. e \in Nat /\ U * s <= e /\ e < U * s + U
    <3> HIDE DEF U, s
    <3>1. U * s \in Nat
      BY <2>3, <2>6
    <3> QED
      BY <2>3, <3>1
  <2>11. mapping_insert(e) = mapping_insert(m) /\ htfh_fls(e) = g
    <3> HIDE DEF e
    <3> QED
      BY <1>3, <2>1, <2>10, SameClass
  <2> HIDE DEF q, s
  <2>12. n < U * s /\ u <= U /\ U * s \in Nat
    <3>1. CASE f = g
      <4>1. U = u
        BY <3>1
      <4> HIDE DEF u, U, f, g
      <4>2. q # s
        BY <2>2, <2>3, <3>1
      <4>3. q + 1 <= s
        BY <2>5, <2>6, <2>9, <3>1, <4>2
      <4>4. u * (q + 1) <= u * s /\ u * (q + 1) = u * q + u /\ u * s \in Nat /\ u * q \in Nat
        BY <2>2, <2>5, <2>6, <4>3
      <4> QED
        BY <2>2, <2>5, <4>1, <4>4
    <3>2. CASE f # g
      <4>1. f + 1 \in Nat /\ f \in 0 .. SizeBits /\ g \in Nat /\ f + 1 <= g /\ g <= SizeBits + 1 /\ L >= 0
        <5> HIDE DEF f, g
        <5> QED
          BY <2>1, <2>2, <2>3, <2>7, <3>2, Widths
      <4>2. 2 ^ (f + 1) <= 2 ^ g /\ 2 ^ (f + 1) = 2 * 2 ^ f
        BY <4>1, PowMonotone, Double
      <4>3. 2 ^ f = u * L /\ 2 ^ g = U * L
        BY <2>2, <2>3, UnitIs DEF L
      <4>4. u <= U
        <5> DEFINE i == f - SL_INDEX_COUNT_LOG2
                   j == g - SL_INDEX_COUNT_LOG2
        <5>1. i \in Nat /\ j \in Nat /\ i <= j /\ j <= SizeBits + 1
          <6> HIDE DEF f, g
          <6> QED
            BY <2>2, <2>3, <2>7, Widths
        <5> HIDE DEF i, j
        <5>2. 2 ^ i <= 2 ^ j
          BY <5>1, PowMonotone
        <5> QED
          BY <5>2 DEF i, j, Unit
      <4> HIDE DEF u, U, f, g
      <4>5. U * L <= U * s /\ U * s \in Nat /\ u * L \in Nat /\ U * L \in Nat
        BY <2>1, <2>2, <2>3, <2>6, <2>8
      <4> QED
        BY <2>2, <4>2, <4>3, <4>4, <4>5
    <3> QED
      BY <3>1, <3>2
  <2>13. N <= e /\ e < 2 ^ (SizeBits + 1)
    <3>1. e < 2 ^ (SizeBits + 1)
      <4>1. e \in Nat \ {0} /\ g \in 0 .. SizeBits /\ m < 2 ^ (g + 1)
        <5>1. e \in Nat \ {0}
          <6> HIDE DEF U
          <6> QED
            BY <2>10, <2>12
        <5> QED
          BY <1>3, <2>1, <5>1, FlsIs
      <4>2. 2 ^ g = U * L /\ 2 ^ (g + 1) = 2 * 2 ^ g
        BY <2>3, <4>1, UnitIs, Double DEF L
      <4>3. g + 1 \in Nat /\ SizeBits + 1 \in Nat /\ g + 1 <= SizeBits + 1 /\ SizeBits + 1 <= SizeBits + 1
        <5> HIDE DEF g
        <5> QED
          BY <4>1, Widths
      <4>4. 2 ^ (g + 1) <= 2 ^ (SizeBits + 1)
        BY <4>3, PowMonotone
      <4> HIDE DEF U, g
      <4>5. m < U * (2 * L) /\ U * (2 * L) = 2 * (U * L) /\ 2 * L \in Nat
        BY <2>1, <2>3, <4>1, <4>2
      <4>6. s < 2 * L
        BY <2>3, <4>5, DivBelow DEF s
      <4>7. U * (s + 1) <= U * (2 * L) /\ U * (s + 1) = U * s + U
        BY <2>3, <2>6, <4>5, <4>6
      <4>8. e < 2 ^ (g + 1) /\ 2 ^ (g + 1) \in Int
        BY <2>1, <2>3, <2>12, <4>2, <4>5, <4>7
      <4> HIDE DEF e
      <4> QED
        BY <1>2, <2>10, <4>4, <4>8
    <3> HIDE DEF u, U
    <3>2. N <= e
      BY <2>2, <2>3, <2>4, <2>12
    <3> QED
      BY <3>1, <3>2
  <2> HIDE DEF e
  <2>14. Before(mapping_insert(N), mapping_insert(e))
    BY <1>2, <2>10, <2>13, ClassMonotone
  <2> QED
    BY <2>11, <2>14
<1> QED
  BY <1>4, <1>5

\* Nothing is passed over for a size that is the first of its list.
LEMMA SearchFirst ==
    ASSUME NEW n \in Nat, n < block_size_max, n % ALIGN_SIZE = 0, ALIGN_SIZE <= n,
           mapping_insert(n - ALIGN_SIZE) # mapping_insert(n)
    PROVE  mapping_search(n) = mapping_insert(n)
<1> DEFINE N == Rounded(n)
<1>1. /\ mapping_search(n) = mapping_insert(N) /\ N \in Nat /\ n <= N /\ N < 2 ^ (SizeBits + 1)
      /\ n < 2 ^ (SizeBits + 1)
  BY RoundedIs
<1>2. CASE ~(n >= SMALL_BLOCK_SIZE)
  <2>1. N = n
    BY <1>2 DEF Rounded
  <2> QED
    BY <1>1, <2>1
<1>3. CASE n >= SMALL_BLOCK_SIZE
  <2> DEFINE f == htfh_fls(n)
             u == Unit(f)
             q == n \div u
             r == n - ALIGN_SIZE
  <2>1. f \in FL_INDEX_SHIFT .. SizeBits /\ u \in Nat \ {0}
    BY <1>1, <1>3, LargeClass
  <2>2. PICK w \in Nat : u = w * ALIGN_SIZE
    BY <2>1, UnitIs
  <2>3. q \in Nat /\ u * q <= n /\ n < u * q + u
    BY <2>1, DivIs
  <2>4. N = n + u - 1
    BY <1>3 DEF Rounded, Unit
  <2>5. r \in Nat /\ ALIGN_SIZE \in {4, 8}
    BY Constants
  <2>6. ~(u * q <= r)
    <3>1. ASSUME u * q <= r PROVE FALSE
      <4>1. r < u * q + u
        <5> HIDE DEF u, q
        <5>1. u * q \in Nat
          BY <2>1, <2>3
        <5> QED
          BY <2>1, <2>3, <2>5, <5>1
      <4> HIDE DEF r
      <4>2. mapping_insert(r) = mapping_insert(n)
        BY <1>1, <1>3, <2>5, <3>1, <4>1, SameClass
      <4> QED
        BY <4>2 DEF r
    <3> QED
      BY <3>1
  <2>7. u * q = n
    <3> DEFINE x == w * q
    <3> HIDE DEF u, q
    <3>1. u * q = ALIGN_SIZE * x /\ x \in Nat
      BY <2>2, <2>3, <2>5
    <3> HIDE DEF x
    <3>2. n < ALIGN_SIZE * x + ALIGN_SIZE /\ ALIGN_SIZE * x <= n
      BY <2>3, <2>5, <2>6, <3>1
    <3>3. n = ALIGN_SIZE * x
      BY <2>5, <3>1, <3>2
    <3> QED
      BY <3>1, <3>3
  <2>8. u * q <= N /\ N < u * q + u
    <3> HIDE DEF u, q, N
    <3> QED
      BY <2>1, <2>4, <2>7
  <2> HIDE DEF N
  <2>9. mapping_insert(N) = mapping_insert(n)
    BY <1>1, <1>3, <2>8, SameClass
  <2> QED
    BY <1>1, <2>9
<1> QED
  BY <1>2, <1>3

-----------------------------------------------------------------------------
(* Heaps                                                                   *)

HeaderT == [size : Nat, is_free : BOOLEAN, prev_is_free : BOOLEAN,
            prev_phys_block : Int, next_free : Int, prev_free : Int]

Classes == FLs \X SLs

Heaps(D) == [mem : [D -> HeaderT], blocks : [Classes -> Int],
             fl_bitmap : SUBSET FLs, sl_bitmap : [FLs -> SUBSET SLs]]

Dom(h) == DOMAIN h.mem

HeapType(h) == h \in Heaps(Dom(h)) /\ Dom(h) \subseteq Nat \ {0}

\* What the fields of a header are, and where its block ends.
LEMMA HeaderTypes ==
    ASSUME NEW h, HeapType(h), NEW a \in Dom(h)
    PROVE  /\ a \in Nat \ {0} /\ h.mem[a] \in HeaderT
           /\ h.mem[a].size \in Nat /\ h.mem[a].is_free \in BOOLEAN /\ h.mem[a].prev_is_free \in BOOLEAN
           /\ h.mem[a].prev_phys_block \in Int /\ h.mem[a].next_free \in Int /\ h.mem[a].prev_free \in Int
           /\ block_next(h, a) = a + 8 + h.mem[a].size /\ block_next(h, a) \in Nat
<1>1. a \in Nat \ {0} /\ h.mem[a] \in HeaderT
  BY DEF HeapType, Heaps
<1>2. /\ h.mem[a].size \in Nat /\ h.mem[a].is_free \in BOOLEAN /\ h.mem[a].prev_is_free \in BOOLEAN
      /\ h.mem[a].prev_phys_block \in Int /\ h.mem[a].next_free \in Int /\ h.mem[a].prev_free \in Int
  BY <1>1 DEF HeaderT
<1>3. block_next(h, a) = a + 16 + h.mem[a].size - 8
  BY DEF block_next, block_to_ptr, block_start_offset, block_header_overhead, Word
<1> QED
  BY <1>1, <1>2, <1>3

-----------------------------------------------------------------------------
(* The free lists                                                          *)

\* The headers of N, in the order of s, are the list of the class c.
Listed(h, c, N, s, len) ==
    /\ len \in Nat /\ s \in [1 .. len -> N]
    /\ \A n \in N : \E i \in 1 .. len : s[i] = n
    /\ \A i, j \in 1 .. len : s[i] = s[j] => i = j
    /\ h.blocks[c] = (IF len = 0 THEN block_null ELSE s[1])
    /\ \A i \in 1 .. len :
          /\ h.mem[s[i]].prev_free = (IF i = 1 THEN block_null ELSE s[i - 1])
          /\ h.mem[s[i]].next_free = (IF i = len THEN block_null ELSE s[i + 1])

\* A list stays a list while its links and its head stay.
LEMMA ListedSame ==
    ASSUME NEW h, NEW g, NEW c, NEW N, NEW s, NEW len, Listed(h, c, N, s, len),
           g.blocks[c] = h.blocks[c],
           \A n \in N : /\ g.mem[n].prev_free = h.mem[n].prev_free
                        /\ g.mem[n].next_free = h.mem[n].next_free
    PROVE  Listed(g, c, N, s, len)
<1>1. \A i \in 1 .. len : s[i] \in N
  BY DEF Listed
<1>2. \A i \in 1 .. len : g.mem[s[i]].prev_free = h.mem[s[i]].prev_free /\ g.mem[s[i]].next_free = h.mem[s[i]].next_free
  BY <1>1
<1> QED
  BY <1>2 DEF Listed

\* A block's links lead to other blocks of its list, or end there.
LEMMA ListedLinks ==
    ASSUME NEW h, NEW c, NEW N \in SUBSET (Nat \ {0}), NEW s, NEW len, Listed(h, c, N, s, len), NEW b \in N
    PROVE  LET p == h.mem[b].prev_free
               q == h.mem[b].next_free
           IN  /\ p \in N \cup {0} /\ q \in N \cup {0} /\ p # b /\ q # b /\ (p # 0 => p # q)
               /\ h.blocks[c] \in N
               /\ (h.blocks[c] = b) <=> (p = 0)
               /\ q # 0 => h.mem[q].prev_free = b
<1> DEFINE p == h.mem[b].prev_free
           q == h.mem[b].next_free
<1>1. PICK i \in 1 .. len : s[i] = b
  BY DEF Listed
<1>2. /\ len \in Nat /\ \A j \in 1 .. len : s[j] \in N
      /\ \A j, k \in 1 .. len : s[j] = s[k] => j = k
      /\ h.blocks[c] = (IF len = 0 THEN 0 ELSE s[1])
      /\ \A j \in 1 .. len : /\ h.mem[s[j]].prev_free = (IF j = 1 THEN 0 ELSE s[j - 1])
                             /\ h.mem[s[j]].next_free = (IF j = len THEN 0 ELSE s[j + 1])
  BY DEF Listed, block_null
<1>3. /\ p = (IF i = 1 THEN 0 ELSE s[i - 1]) /\ q = (IF i = len THEN 0 ELSE s[i + 1])
      /\ i # 1 => i - 1 \in 1 .. len
      /\ i # len => i + 1 \in 1 .. len
      /\ len # 0 /\ 1 \in 1 .. len
  BY <1>1, <1>2
<1> HIDE DEF p, q
<1>4. p \in N \cup {0} /\ q \in N \cup {0} /\ h.blocks[c] = s[1] /\ s[1] \in N
  BY <1>2, <1>3
<1>5. p # b /\ q # b /\ (p # 0 => p # q)
  <2>1. i - 1 # i /\ i + 1 # i /\ i - 1 # i + 1
    BY <1>2
  <2> QED
    BY <1>1, <1>2, <1>3, <2>1
<1>6. (s[1] = b) <=> (p = 0)
  BY <1>1, <1>2, <1>3
<1>7. q # 0 => h.mem[q].prev_free = b
  <2>1. ASSUME q # 0 PROVE h.mem[q].prev_free = b
    <3>1. i # len /\ q = s[i + 1] /\ i + 1 \in 1 .. len
      BY <1>3, <2>1
    <3>2. i + 1 # 1 /\ (i + 1) - 1 = i
      BY <1>2
    <3> QED
      BY <1>1, <1>2, <3>1, <3>2
  <2> QED
    BY <2>1
<1> QED
  BY <1>4, <1>5, <1>6, <1>7 DEF p, q

\* What is left of a list after a removal.
LEMMA ListedRemove ==
    ASSUME NEW h, NEW g, NEW c, NEW N \in SUBSET (Nat \ {0}), NEW s, NEW len, Listed(h, c, N, s, len),
           NEW b \in N,
           g.blocks[c] = (IF h.blocks[c] = b THEN h.mem[b].next_free ELSE h.blocks[c]),
           \A a \in N :
              /\ g.mem[a].next_free =
                    (IF a = h.mem[b].prev_free THEN h.mem[b].next_free ELSE h.mem[a].next_free)
              /\ g.mem[a].prev_free =
                    (IF a = h.mem[b].next_free THEN h.mem[b].prev_free ELSE h.mem[a].prev_free)
    PROVE  \E z, l : Listed(g, c, N \ {b}, z, l)
<1> DEFINE p == h.mem[b].prev_free
           q == h.mem[b].next_free
<1>1. PICK i \in 1 .. len : s[i] = b
  BY DEF Listed
<1>2. /\ len \in Nat /\ (\A j \in 1 .. len : s[j] \in N) /\ 0 \notin N
      /\ \A j, k \in 1 .. len : s[j] = s[k] => j = k
      /\ h.blocks[c] = (IF len = 0 THEN 0 ELSE s[1])
      /\ \A j \in 1 .. len : /\ h.mem[s[j]].prev_free = (IF j = 1 THEN 0 ELSE s[j - 1])
                             /\ h.mem[s[j]].next_free = (IF j = len THEN 0 ELSE s[j + 1])
  BY DEF Listed, block_null
<1>3. /\ p = (IF i = 1 THEN 0 ELSE s[i - 1]) /\ q = (IF i = len THEN 0 ELSE s[i + 1])
      /\ i # 1 => i - 1 \in 1 .. len
      /\ i # len => i + 1 \in 1 .. len
  BY <1>1, <1>2
<1>4. \A a \in N : /\ g.mem[a].next_free = (IF a = p THEN q ELSE h.mem[a].next_free)
                  /\ g.mem[a].prev_free = (IF a = q THEN p ELSE h.mem[a].prev_free)
  OBVIOUS
<1>5. g.blocks[c] = (IF h.blocks[c] = b THEN q ELSE h.blocks[c])
  OBVIOUS
<1> HIDE DEF p, q
<1> DEFINE z == [j \in 1 .. len - 1 |-> IF j < i THEN s[j] ELSE s[j + 1]]
           M == N \ {b}
<1>6. \A j \in 1 .. len - 1 : /\ j < i => j \in 1 .. len /\ z[j] = s[j] /\ j # i
                             /\ ~(j < i) => j + 1 \in 1 .. len /\ z[j] = s[j + 1] /\ j + 1 # i
  BY <1>2
<1>7. z \in [1 .. len - 1 -> M] /\ len - 1 \in Nat
  <2>1. \A j \in 1 .. len - 1 : z[j] \in M
    BY <1>1, <1>2, <1>6
  <2> QED
    BY <1>2, <2>1
<1>8. ASSUME NEW m \in M PROVE \E j \in 1 .. len - 1 : z[j] = m
  <2>1. PICK k \in 1 .. len : s[k] = m
    BY DEF Listed
  <2>2. k # i
    BY <1>1, <2>1
  <2>3. CASE k < i
    <3>1. k \in 1 .. len - 1
      BY <1>2, <2>3
    <3> QED
      BY <1>6, <2>1, <2>3, <3>1
  <2>4. CASE k > i
    <3>1. k - 1 \in 1 .. len - 1 /\ ~(k - 1 < i) /\ (k - 1) + 1 = k
      BY <1>2, <2>4
    <3> QED
      BY <1>6, <2>1, <3>1
  <2> QED
    BY <2>2, <2>3, <2>4
<1>9. \A j, k \in 1 .. len - 1 : z[j] = z[k] => j = k
  BY <1>2, <1>6
<1> HIDE DEF M
<1>10. g.blocks[c] = (IF len - 1 = 0 THEN 0 ELSE z[1])
  <2>1. CASE i = 1
    <3>1. g.blocks[c] = q
      BY <1>1, <1>2, <1>5, <2>1
    <3>2. len # 1 => 1 \in 1 .. len - 1 /\ z[1] = s[2]
      BY <1>2, <2>1
    <3> QED
      BY <1>2, <1>3, <2>1, <3>1, <3>2
  <2>2. CASE i # 1
    <3>1. len > 1 /\ 1 \in 1 .. len - 1 /\ z[1] = s[1] /\ 1 \in 1 .. len
      BY <1>2, <2>2
    <3>2. h.blocks[c] = s[1] /\ s[1] # b
      BY <1>1, <1>2, <2>2, <3>1
    <3> QED
      BY <1>5, <3>1, <3>2
  <2> QED
    BY <2>1, <2>2
<1>11. ASSUME NEW j \in 1 .. len - 1
       PROVE  /\ g.mem[z[j]].prev_free = (IF j = 1 THEN 0 ELSE z[j - 1])
              /\ g.mem[z[j]].next_free = (IF j = len - 1 THEN 0 ELSE z[j + 1])
  <2> DEFINE m == z[j]
             k == IF j < i THEN j ELSE j + 1
  <2>1. k \in 1 .. len /\ m = s[k] /\ k # i /\ m \in N
    BY <1>2, <1>6
  <2>2. /\ g.mem[m].next_free = (IF m = p THEN q ELSE h.mem[m].next_free)
        /\ g.mem[m].prev_free = (IF m = q THEN p ELSE h.mem[m].prev_free)
    BY <1>4, <2>1
  <2>3. m = p <=> k + 1 = i
    BY <1>2, <1>3, <2>1
  <2>4. m = q <=> k = i + 1
    BY <1>2, <1>3, <2>1
  <2>5. g.mem[m].prev_free = (IF j = 1 THEN 0 ELSE z[j - 1])
    <3>1. CASE k = i + 1
      <4>1. j = i /\ g.mem[m].prev_free = p
        BY <1>2, <2>1, <2>2, <2>4, <3>1
      <4>2. j # 1 => j - 1 \in 1 .. len - 1 /\ j - 1 < i
        BY <1>2, <4>1
      <4>3. j # 1 => z[j - 1] = s[j - 1]
        BY <1>6, <4>2
      <4> QED
        BY <1>3, <4>1, <4>3
    <3>2. CASE k # i + 1
      <4>1. g.mem[m].prev_free = (IF k = 1 THEN 0 ELSE s[k - 1])
        BY <1>2, <2>1, <2>2, <2>4, <3>2
      <4>2. (k = 1) <=> (j = 1)
        BY <2>1, <3>2
      <4>3. j # 1 => j - 1 \in 1 .. len - 1 /\ (j - 1 < i <=> j < i)
        BY <1>2, <2>1, <3>2
      <4>4. j # 1 => z[j - 1] = s[k - 1]
        BY <1>2, <1>6, <4>3
      <4> QED
        BY <4>1, <4>2, <4>4
    <3> QED
      BY <3>1, <3>2
  <2>6. g.mem[m].next_free = (IF j = len - 1 THEN 0 ELSE z[j + 1])
    <3>1. CASE k + 1 = i
      <4>1. j = k /\ j + 1 = i /\ g.mem[m].next_free = q
        BY <1>2, <2>1, <2>2, <2>3, <3>1
      <4>2. j # len - 1 => j + 1 \in 1 .. len - 1 /\ z[j + 1] = s[i + 1]
        BY <1>2, <4>1
      <4> QED
        BY <1>2, <1>3, <4>1, <4>2
    <3>2. CASE k + 1 # i
      <4>1. g.mem[m].next_free = (IF k = len THEN 0 ELSE s[k + 1])
        BY <1>2, <2>1, <2>2, <2>3, <3>2
      <4>2. (k = len) <=> (j = len - 1)
        BY <1>2, <2>1, <3>2
      <4>3. j # len - 1 => j + 1 \in 1 .. len - 1 /\ z[j + 1] = s[k + 1]
        BY <1>2, <1>6, <2>1, <3>2
      <4> QED
        BY <4>1, <4>2, <4>3
    <3> QED
      BY <3>1, <3>2
  <2> QED
    BY <2>5, <2>6
<1> HIDE DEF z
<1>12. Listed(g, c, M, z, len - 1)
  BY <1>7, <1>8, <1>9, <1>10, <1>11 DEF Listed, block_null
<1> QED
  BY <1>12 DEF M

\* A list with one more block at its head.
LEMMA ListedInsert ==
    ASSUME NEW h, NEW g, NEW c, NEW N \in SUBSET (Nat \ {0}), NEW s, NEW len, Listed(h, c, N, s, len),
           NEW b \in Nat \ {0}, b \notin N,
           g.blocks[c] = b, g.mem[b].next_free = h.blocks[c], g.mem[b].prev_free = 0,
           \A a \in N :
              /\ g.mem[a].next_free = h.mem[a].next_free
              /\ g.mem[a].prev_free = (IF a = h.blocks[c] THEN b ELSE h.mem[a].prev_free)
    PROVE  \E z, l : Listed(g, c, N \cup {b}, z, l)
<1> DEFINE q == h.blocks[c]
           M == N \cup {b}
           z == [j \in 1 .. len + 1 |-> IF j = 1 THEN b ELSE s[j - 1]]
<1>1. /\ len \in Nat /\ (\A j \in 1 .. len : s[j] \in N) /\ 0 \notin N
      /\ \A j, k \in 1 .. len : s[j] = s[k] => j = k
      /\ q = (IF len = 0 THEN 0 ELSE s[1])
      /\ \A j \in 1 .. len : /\ h.mem[s[j]].prev_free = (IF j = 1 THEN 0 ELSE s[j - 1])
                             /\ h.mem[s[j]].next_free = (IF j = len THEN 0 ELSE s[j + 1])
      /\ \A m \in N : \E j \in 1 .. len : s[j] = m
  BY DEF Listed, block_null
<1>2. /\ g.blocks[c] = b /\ g.mem[b].next_free = q /\ g.mem[b].prev_free = 0
      /\ \A a \in N : /\ g.mem[a].next_free = h.mem[a].next_free
                      /\ g.mem[a].prev_free = (IF a = q THEN b ELSE h.mem[a].prev_free)
  OBVIOUS
<1>3. (len # 0 => 1 \in 1 .. len /\ q \in N) /\ q # b
  BY <1>1
<1> HIDE DEF q
<1>4. /\ z[1] = b /\ len + 1 \in Nat /\ len + 1 # 0 /\ 1 \in 1 .. len + 1
      /\ \A j \in 1 .. len : j + 1 \in 1 .. len + 1 /\ z[j + 1] = s[j]
      /\ \A j \in 1 .. len + 1 : j # 1 => j - 1 \in 1 .. len /\ z[j] = s[j - 1]
  BY <1>1
<1>5. z \in [1 .. len + 1 -> M]
  <2>1. \A j \in 1 .. len + 1 : z[j] \in M
    BY <1>1, <1>4
  <2> QED
    BY <2>1
<1> HIDE DEF z
<1>6. \A m \in M : \E j \in 1 .. len + 1 : z[j] = m
  BY <1>1, <1>4
<1>7. \A j, k \in 1 .. len + 1 : z[j] = z[k] => j = k
  BY <1>1, <1>4
<1>8. ASSUME NEW j \in 1 .. len + 1
       PROVE  /\ g.mem[z[j]].prev_free = (IF j = 1 THEN 0 ELSE z[j - 1])
              /\ g.mem[z[j]].next_free = (IF j = len + 1 THEN 0 ELSE z[j + 1])
  <2>1. CASE j = 1
    <3>1. z[j] = b /\ g.mem[b].prev_free = 0 /\ g.mem[b].next_free = q
      BY <1>2, <1>4, <2>1
    <3>2. j = len + 1 <=> len = 0
      BY <1>1, <2>1
    <3>3. len # 0 => z[j + 1] = s[1]
      BY <1>3, <1>4, <2>1
    <3> QED
      BY <1>1, <2>1, <3>1, <3>2, <3>3
  <2>2. CASE j # 1
    <3> DEFINE i == j - 1
    <3>1. i \in 1 .. len /\ i + 1 = j /\ len # 0
      BY <1>1, <1>4, <2>2
    <3> HIDE DEF i
    <3>2. z[j] = s[i] /\ s[i] \in N
      BY <1>1, <1>4, <3>1
    <3>3. g.mem[s[i]].next_free = (IF i = len THEN 0 ELSE s[i + 1])
      <4>1. g.mem[s[i]].next_free = h.mem[s[i]].next_free
        BY <1>2, <3>2
      <4> QED
        BY <1>1, <3>1, <4>1
    <3>4. i = len <=> j = len + 1
      BY <1>1, <3>1
    <3>5. i # len => j \in 1 .. len /\ z[j + 1] = s[j]
      BY <1>1, <1>4, <3>1
    <3>6. s[i] = q <=> i = 1
      BY <1>1, <1>3, <3>1
    <3>7. g.mem[s[i]].prev_free = (IF i = 1 THEN b ELSE s[i - 1])
      <4>1. g.mem[s[i]].prev_free = (IF s[i] = q THEN b ELSE h.mem[s[i]].prev_free)
        BY <1>2, <3>2
      <4>2. h.mem[s[i]].prev_free = (IF i = 1 THEN 0 ELSE s[i - 1])
        BY <1>1, <3>1
      <4> QED
        BY <3>6, <4>1, <4>2, Zenon
    <3>8. j - 1 = i /\ (i # 1 => i - 1 \in 1 .. len /\ (i - 1) + 1 = i)
      BY <1>1, <3>1
    <3>9. z[i] = (IF i = 1 THEN b ELSE s[i - 1])
      BY <1>4, <3>8
    <3> QED
      BY <2>2, <3>1, <3>2, <3>3, <3>4, <3>5, <3>7, <3>8, <3>9
  <2> QED
    BY <2>1, <2>2
<1>9. Listed(g, c, M, z, len + 1)
  <2> HIDE DEF M
  <2> QED
    BY <1>2, <1>4, <1>5, <1>6, <1>7, <1>8 DEF Listed, block_null
<1> QED
  BY <1>9

Members(h, N, c) == {b \in N : mapping_insert(h.mem[b].size) = c}

IsListed(h, c, N) == \E s, len : Listed(h, c, N, s, len)

Bitmaps(h) ==
    /\ \A c \in Classes : c[2] \in h.sl_bitmap[c[1]] <=> h.blocks[c] # 0
    /\ \A fl \in FLs : fl \in h.fl_bitmap <=> h.sl_bitmap[fl] # {}

\* The lists hold the blocks of N, each in the list of its size, and the
\* bitmaps say which lists hold a block.
Index(h, N) ==
    /\ N \subseteq Dom(h) /\ Bitmaps(h)
    /\ \A c \in Classes : IsListed(h, c, Members(h, N, c))

\* g is h with other free links and another index.
LinksOnly(h, g) ==
    /\ Dom(g) = Dom(h)
    /\ \A a \in Dom(h) : /\ g.mem[a].size = h.mem[a].size /\ g.mem[a].is_free = h.mem[a].is_free
                         /\ g.mem[a].prev_is_free = h.mem[a].prev_is_free
                         /\ g.mem[a].prev_phys_block = h.mem[a].prev_phys_block

\* g is h with other sizes, flags and neighbours, but not for N.
IndexOnly(h, g, N) ==
    /\ g.blocks = h.blocks /\ g.fl_bitmap = h.fl_bitmap /\ g.sl_bitmap = h.sl_bitmap
    /\ \A a \in N : /\ a \in Dom(g) /\ g.mem[a].size = h.mem[a].size
                    /\ g.mem[a].next_free = h.mem[a].next_free /\ g.mem[a].prev_free = h.mem[a].prev_free

\* The index stays exact while its lists, bitmaps and sizes stay.
LEMMA IndexSame ==
    ASSUME NEW h, NEW g, NEW N, Index(h, N), IndexOnly(h, g, N)
    PROVE  Index(g, N)
<1>1. N \subseteq Dom(g) /\ Bitmaps(g)
  BY DEF Index, IndexOnly, Bitmaps
<1>2. ASSUME NEW c \in Classes PROVE IsListed(g, c, Members(g, N, c))
  <2>1. Members(g, N, c) = Members(h, N, c)
    BY DEF Members, IndexOnly
  <2>2. PICK s, len : Listed(h, c, Members(h, N, c), s, len)
    BY DEF Index, IsListed
  <2>3. Listed(g, c, Members(h, N, c), s, len)
    <3> DEFINE M == Members(h, N, c)
    <3>1. M \subseteq N
      BY DEF Members
    <3>2. g.blocks[c] = h.blocks[c]
      BY DEF IndexOnly
    <3>3. \A n \in M : g.mem[n].prev_free = h.mem[n].prev_free /\ g.mem[n].next_free = h.mem[n].next_free
      BY <3>1 DEF IndexOnly
    <3>4. Listed(h, c, M, s, len)
      BY <2>2
    <3> HIDE DEF M
    <3>5. Listed(g, c, M, s, len)
      BY <3>2, <3>3, <3>4, ListedSame
    <3> QED
      BY <3>5 DEF M
  <2> QED
    BY <2>1, <2>3 DEF IsListed
<1> QED
  BY <1>1, <1>2 DEF Index

\* The head of a list that is marked in the bitmaps is a block of it.
LEMMA HeadIs ==
    ASSUME NEW h, HeapType(h), NEW N, Index(h, N), NEW c \in Classes, h.blocks[c] # 0
    PROVE  h.blocks[c] \in N /\ mapping_insert(h.mem[h.blocks[c]].size) = c
<1>1. PICK s, len : Listed(h, c, Members(h, N, c), s, len)
  BY DEF Index, IsListed
<1>2. len \in Nat /\ len # 0 /\ h.blocks[c] = s[1] /\ s \in [1 .. len -> Members(h, N, c)]
  BY <1>1 DEF Listed, block_null
<1>3. 1 \in 1 .. len
  BY <1>2
<1>4. h.blocks[c] \in Members(h, N, c)
  BY <1>2, <1>3
<1> QED
  BY <1>4 DEF Members

\* A list with a block is marked.
LEMMA MarkedIs ==
    ASSUME NEW h, HeapType(h), NEW N, Index(h, N), NEW c \in Classes, NEW b \in N,
           mapping_insert(h.mem[b].size) = c
    PROVE  h.blocks[c] # 0 /\ c[2] \in h.sl_bitmap[c[1]] /\ c[1] \in h.fl_bitmap
<1> DEFINE M == Members(h, N, c)
<1>1. PICK s, len : Listed(h, c, M, s, len)
  BY DEF Index, IsListed
<1>2. M \in SUBSET (Nat \ {0}) /\ b \in M
  BY DEF Members, Index, HeapType
<1> HIDE DEF M
<1>3. h.blocks[c] \in M
  BY <1>1, <1>2, ListedLinks
<1>4. h.blocks[c] # 0
  BY <1>2, <1>3
<1>5. c[1] \in FLs
  BY DEF Classes
<1> QED
  BY <1>4, <1>5 DEF Index, Bitmaps

\* The links of a block in a list are never NULL.
LEMMA LinkedIs ==
    ASSUME NEW h, HeapType(h), NEW N, Index(h, N), NEW b \in N,
           mapping_insert(h.mem[b].size) \in Classes
    PROVE  Linked(h, b)
<1> DEFINE c == mapping_insert(h.mem[b].size)
           M == Members(h, N, c)
<1>1. PICK s, len : Listed(h, c, M, s, len)
  BY DEF Index, IsListed
<1>2. M \in SUBSET (Nat \ {0}) /\ b \in M
  BY DEF Members, Index, HeapType
<1> HIDE DEF M, c
<1>3. h.mem[b].prev_free \in M \cup {0} /\ h.mem[b].next_free \in M \cup {0}
  BY <1>1, <1>2, ListedLinks
<1>4. h.mem[b].prev_free \in Nat /\ h.mem[b].next_free \in Nat
  <2>1. \A a \in M : a \in Nat
    BY <1>2
  <2> QED
    BY <1>3, <2>1
<1> QED
  BY <1>4 DEF Linked, NULL

\* What a removal does to the links.
LEMMA UnlinkIs ==
    ASSUME NEW h, HeapType(h), NEW b \in Dom(h),
           h.mem[b].prev_free # 0 => h.mem[b].prev_free # h.mem[b].next_free
    PROVE  LET m == Unlink(h.mem, b)
           IN  /\ m \in [Dom(h) -> HeaderT]
               /\ \A a \in Dom(h) :
                     /\ m[a].size = h.mem[a].size /\ m[a].is_free = h.mem[a].is_free
                     /\ m[a].prev_is_free = h.mem[a].prev_is_free
                     /\ m[a].prev_phys_block = h.mem[a].prev_phys_block
                     /\ m[a].next_free =
                           (IF a = h.mem[b].prev_free THEN h.mem[b].next_free ELSE h.mem[a].next_free)
                     /\ m[a].prev_free =
                           (IF a = h.mem[b].next_free THEN h.mem[b].prev_free ELSE h.mem[a].prev_free)
<1> DEFINE p == h.mem[b].prev_free
           q == h.mem[b].next_free
           m == [a \in Dom(h) |->
                   CASE a = q -> [h.mem[a] EXCEPT !.prev_free = p]
                     [] a = p -> [h.mem[a] EXCEPT !.next_free = q]
                     [] OTHER -> h.mem[a]]
<1>1. Unlink(h.mem, b) = m
  BY Zenon DEF Unlink, Dom
<1>2. p \in Int /\ q \in Int
  BY HeaderTypes
<1> HIDE DEF p, q
<1>3. ASSUME NEW a \in Dom(h)
      PROVE  /\ m[a] \in HeaderT
             /\ m[a].size = h.mem[a].size /\ m[a].is_free = h.mem[a].is_free
             /\ m[a].prev_is_free = h.mem[a].prev_is_free
             /\ m[a].prev_phys_block = h.mem[a].prev_phys_block
             /\ m[a].next_free = (IF a = p THEN q ELSE h.mem[a].next_free)
             /\ m[a].prev_free = (IF a = q THEN p ELSE h.mem[a].prev_free)
  <2>1. h.mem[a] \in HeaderT /\ a # 0
    BY HeaderTypes
  <2>2. CASE a = q
    <3>1. m[a] = [h.mem[a] EXCEPT !.prev_free = p] /\ a # p
      BY <2>1, <2>2 DEF p, q
    <3> HIDE DEF m
    <3> QED
      BY <1>2, <2>1, <2>2, <3>1 DEF HeaderT
  <2>3. CASE a # q /\ a = p
    <3>1. m[a] = [h.mem[a] EXCEPT !.next_free = q]
      BY <2>3
    <3> HIDE DEF m
    <3> QED
      BY <1>2, <2>1, <2>3, <3>1 DEF HeaderT
  <2>4. CASE a # q /\ a # p
    <3>1. m[a] = h.mem[a]
      BY <2>4
    <3> HIDE DEF m
    <3> QED
      BY <2>1, <2>4, <3>1
  <2> QED
    BY <2>2, <2>3, <2>4
<1>4. m \in [Dom(h) -> HeaderT]
  BY <1>3
<1> HIDE DEF m
<1> QED
  BY <1>1, <1>3, <1>4 DEF p, q

\* controller_remove_free_block takes one block out of an exact index,
LEMMA RemoveKeeps ==
    ASSUME NEW h, HeapType(h), NEW N, Index(h, N), NEW b \in N, NEW c \in Classes,
           mapping_insert(h.mem[b].size) = c
    PROVE  LET g == controller_remove_free_block(h, b, c)
           IN  HeapType(g) /\ LinksOnly(h, g) /\ Index(g, N \ {b})
<1> DEFINE g == controller_remove_free_block(h, b, c)
           p == h.mem[b].prev_free
           q == h.mem[b].next_free
           x == c[1]
           y == c[2]
           emptied == h.blocks[c] = b /\ q = 0
           row == h.sl_bitmap[x] \ {y}
           m == Unlink(h.mem, b)
           blocks == IF h.blocks[c] = b THEN [h.blocks EXCEPT ![c] = q] ELSE h.blocks
           sl == IF emptied THEN [h.sl_bitmap EXCEPT ![x] = row] ELSE h.sl_bitmap
           fl == IF emptied /\ row = {} THEN h.fl_bitmap \ {x} ELSE h.fl_bitmap
           M == Members(h, N, c)
<1>1. g = [mem |-> m, blocks |-> blocks, sl_bitmap |-> sl, fl_bitmap |-> fl]
  BY Zenon DEF controller_remove_free_block, block_null
<1>2. /\ h \in Heaps(Dom(h)) /\ Dom(h) \subseteq Nat \ {0} /\ N \subseteq Dom(h) /\ b \in Dom(h)
      /\ x \in FLs /\ y \in SLs /\ c = <<x, y>>
      /\ h.blocks \in [Classes -> Int] /\ h.sl_bitmap \in [FLs -> SUBSET SLs] /\ h.fl_bitmap \in SUBSET FLs
  BY DEF HeapType, Index, Classes, Heaps
<1>3. M \in SUBSET (Nat \ {0}) /\ b \in M /\ IsListed(h, c, M)
  BY <1>2 DEF Members, Index
<1> HIDE DEF M
<1>4. PICK s, len : Listed(h, c, M, s, len)
  BY <1>3 DEF IsListed
<1>5. /\ p \in M \cup {0} /\ q \in M \cup {0} /\ p # b /\ q # b /\ (p # 0 => p # q)
      /\ h.blocks[c] \in M /\ (h.blocks[c] = b <=> p = 0)
  BY <1>3, <1>4, ListedLinks
<1>6. /\ m \in [Dom(h) -> HeaderT]
      /\ \A a \in Dom(h) :
            /\ m[a].size = h.mem[a].size /\ m[a].is_free = h.mem[a].is_free
            /\ m[a].prev_is_free = h.mem[a].prev_is_free
            /\ m[a].prev_phys_block = h.mem[a].prev_phys_block
            /\ m[a].next_free = (IF a = p THEN q ELSE h.mem[a].next_free)
            /\ m[a].prev_free = (IF a = q THEN p ELSE h.mem[a].prev_free)
  BY <1>2, <1>5, UnlinkIs
<1>7. p \in Int /\ q \in Int
  BY <1>2, HeaderTypes
<1> HIDE DEF g, m, p, q, x, y
<1>8. /\ blocks \in [Classes -> Int]
      /\ \A d \in Classes : blocks[d] = IF d = c /\ h.blocks[c] = b THEN q ELSE h.blocks[d]
  BY <1>2, <1>7
<1>9. /\ sl \in [FLs -> SUBSET SLs] /\ fl \in SUBSET FLs
      /\ \A i \in FLs : sl[i] = IF i = x /\ emptied THEN row ELSE h.sl_bitmap[i]
  BY <1>2
<1> HIDE DEF blocks, sl
<1>10. g.mem = m /\ g.blocks = blocks /\ g.sl_bitmap = sl /\ g.fl_bitmap = fl /\ Dom(g) = Dom(h)
  <2>1. DOMAIN m = Dom(h)
    BY <1>6
  <2>2. g.mem = m /\ g.blocks = blocks /\ g.sl_bitmap = sl /\ g.fl_bitmap = fl
    BY <1>1
  <2> QED
    BY <2>1, <2>2 DEF Dom
<1>11. HeapType(g)
  <2>1. g \in Heaps(Dom(h))
    BY <1>1, <1>6, <1>8, <1>9 DEF Heaps
  <2> QED
    BY <1>2, <1>10, <2>1 DEF HeapType
<1>12. LinksOnly(h, g)
  BY <1>6, <1>10 DEF LinksOnly
<1>13. h.blocks[c] # 0 /\ y \in h.sl_bitmap[x] /\ x \in h.fl_bitmap
  BY <1>2, MarkedIs DEF x, y
<1>14. ASSUME NEW d \in Classes PROVE d[2] \in sl[d[1]] <=> blocks[d] # 0
  <2>1. d[1] \in FLs /\ d[2] \in SLs /\ d = <<d[1], d[2]>>
    BY DEF Classes
  <2>2. d[2] \in h.sl_bitmap[d[1]] <=> h.blocks[d] # 0
    BY DEF Index, Bitmaps
  <2>3. CASE d = c
    <3>1. d[1] = x /\ d[2] = y
      BY <2>3 DEF x, y
    <3>2. CASE emptied
      <4>1. sl[x] = row /\ blocks[d] = 0
        BY <1>2, <1>8, <1>9, <2>3, <3>2
      <4> QED
        BY <3>1, <4>1
    <3>3. CASE ~emptied
      <4>1. sl[x] = h.sl_bitmap[x] /\ blocks[d] # 0
        BY <1>2, <1>8, <1>9, <1>13, <2>3, <3>3
      <4> QED
        BY <1>13, <3>1, <4>1
    <3> QED
      BY <3>2, <3>3
  <2>4. CASE d # c
    <3>1. d[1] # x \/ d[2] # y
      BY <1>2, <2>1, <2>4
    <3>2. blocks[d] = h.blocks[d]
      BY <1>8, <2>4
    <3>3. d[2] \in sl[d[1]] <=> d[2] \in h.sl_bitmap[d[1]]
      BY <1>9, <2>1, <3>1
    <3> QED
      BY <2>2, <3>2, <3>3
  <2> QED
    BY <2>3, <2>4
<1>15. ASSUME NEW i \in FLs PROVE i \in fl <=> sl[i] # {}
  <2>1. i \in h.fl_bitmap <=> h.sl_bitmap[i] # {}
    BY DEF Index, Bitmaps
  <2> QED
    BY <1>9, <1>13, <2>1
<1>16. Bitmaps(g)
  BY <1>10, <1>14, <1>15 DEF Bitmaps
<1>17. ASSUME NEW d \in Classes PROVE IsListed(g, d, Members(g, N \ {b}, d))
  <2>1. Members(g, N \ {b}, d) = Members(h, N, d) \ {b}
    BY <1>2, <1>6, <1>10 DEF Members
  <2>2. CASE d = c
    <3>1. g.blocks[c] = IF h.blocks[c] = b THEN q ELSE h.blocks[c]
      BY <1>8, <1>10
    <3>2. M \subseteq Dom(h)
      BY <1>2 DEF M, Members
    <3>3. \A a \in M : /\ g.mem[a].next_free = (IF a = p THEN q ELSE h.mem[a].next_free)
                      /\ g.mem[a].prev_free = (IF a = q THEN p ELSE h.mem[a].prev_free)
      BY <1>6, <1>10, <3>2
    <3>4. IsListed(g, c, M \ {b})
      BY <1>3, <1>4, <3>1, <3>3, ListedRemove DEF p, q, IsListed
    <3> QED
      BY <2>1, <2>2, <3>4 DEF M
  <2>3. CASE d # c
    <3> DEFINE K == Members(h, N, d)
    <3>1. PICK z, l : Listed(h, d, K, z, l)
      BY DEF Index, IsListed
    <3>2. \A a \in K : a \notin M /\ a \in Dom(h) /\ a # 0
      BY <1>2, <2>3 DEF Members, M
    <3>3. b \notin K
      BY <1>3, <3>2
    <3> HIDE DEF K
    <3>4. g.blocks[d] = h.blocks[d]
      BY <1>8, <1>10, <2>3
    <3>5. \A a \in K : g.mem[a].prev_free = h.mem[a].prev_free /\ g.mem[a].next_free = h.mem[a].next_free
      BY <1>5, <1>6, <1>10, <3>2
    <3>6. Listed(g, d, K, z, l)
      BY <3>1, <3>4, <3>5, ListedSame
    <3>7. K \ {b} = K
      BY <3>3
    <3> QED
      BY <2>1, <3>6, <3>7 DEF IsListed, K
  <2> QED
    BY <2>2, <2>3
<1>18. Index(g, N \ {b})
  <2>1. N \ {b} \subseteq Dom(g)
    BY <1>2, <1>10
  <2> QED
    BY <1>16, <1>17, <2>1 DEF Index
<1> QED
  BY <1>11, <1>12, <1>18 DEF g

\* and controller_insert_free_block puts one in.
LEMMA InsertKeeps ==
    ASSUME NEW h, HeapType(h), NEW N, Index(h, N), NEW b \in Dom(h) \ N, NEW c \in Classes,
           mapping_insert(h.mem[b].size) = c
    PROVE  LET g == controller_insert_free_block(h, b, c)
           IN  HeapType(g) /\ LinksOnly(h, g) /\ Index(g, N \cup {b})
<1> DEFINE g == controller_insert_free_block(h, b, c)
           q == h.blocks[c]
           x == c[1]
           y == c[2]
           m == [a \in Dom(h) |->
                   CASE a = b -> [h.mem[b] EXCEPT !.next_free = q, !.prev_free = block_null]
                     [] a = q -> [h.mem[a] EXCEPT !.prev_free = b]
                     [] OTHER -> h.mem[a]]
           blocks == [h.blocks EXCEPT ![c] = b]
           sl == [h.sl_bitmap EXCEPT ![x] = @ \cup {y}]
           fl == h.fl_bitmap \cup {x}
           M == Members(h, N, c)
<1>1. g = [mem |-> m, blocks |-> blocks, fl_bitmap |-> fl, sl_bitmap |-> sl]
  BY Zenon DEF controller_insert_free_block, Dom
<1>2. /\ h \in Heaps(Dom(h)) /\ Dom(h) \subseteq Nat \ {0} /\ N \subseteq Dom(h) /\ b \in Dom(h) /\ b \notin N
      /\ x \in FLs /\ y \in SLs /\ c = <<x, y>>
      /\ h.blocks \in [Classes -> Int] /\ h.sl_bitmap \in [FLs -> SUBSET SLs] /\ h.fl_bitmap \in SUBSET FLs
  BY DEF HeapType, Index, Classes, Heaps
<1>3. M \in SUBSET (Nat \ {0}) /\ b \notin M /\ IsListed(h, c, M) /\ b \in Nat \ {0}
  BY <1>2 DEF Members, Index
<1>4. q # 0 => q \in M
  BY HeadIs DEF Members
<1>5. q # b /\ q \in Int
  BY <1>2, <1>3, <1>4
<1> HIDE DEF M, g, q, x, y
<1>6. ASSUME NEW a \in Dom(h)
      PROVE  /\ m[a] \in HeaderT
             /\ m[a].size = h.mem[a].size /\ m[a].is_free = h.mem[a].is_free
             /\ m[a].prev_is_free = h.mem[a].prev_is_free
             /\ m[a].prev_phys_block = h.mem[a].prev_phys_block
             /\ m[a].next_free = (IF a = b THEN q ELSE h.mem[a].next_free)
             /\ m[a].prev_free = (IF a = b THEN 0 ELSE IF a = q THEN b ELSE h.mem[a].prev_free)
  <2>1. h.mem[a] \in HeaderT /\ b \in Int
    BY <1>2, HeaderTypes
  <2>2. CASE a = b
    <3> DEFINE k == 0
    <3>1. m[a] = [h.mem[a] EXCEPT !.next_free = q, !.prev_free = k] /\ k \in Int /\ k = 0
      BY <1>5, <2>2 DEF block_null
    <3> HIDE DEF m, k
    <3>2. /\ m[a] \in HeaderT /\ m[a].next_free = q /\ m[a].prev_free = k
          /\ m[a].size = h.mem[a].size /\ m[a].is_free = h.mem[a].is_free
          /\ m[a].prev_is_free = h.mem[a].prev_is_free
          /\ m[a].prev_phys_block = h.mem[a].prev_phys_block
      BY <1>5, <2>1, <3>1 DEF HeaderT
    <3> QED
      BY <2>2, <3>1, <3>2
  <2>3. CASE a # b /\ a = q
    <3>1. m[a] = [h.mem[a] EXCEPT !.prev_free = b]
      BY <2>3
    <3> HIDE DEF m
    <3> QED
      BY <2>1, <2>3, <3>1 DEF HeaderT
  <2>4. CASE a # b /\ a # q
    <3>1. m[a] = h.mem[a]
      BY <2>4
    <3> HIDE DEF m
    <3> QED
      BY <2>1, <2>4, <3>1
  <2> QED
    BY <2>2, <2>3, <2>4
<1>7. m \in [Dom(h) -> HeaderT]
  BY <1>6
<1>8. /\ blocks \in [Classes -> Int]
      /\ \A d \in Classes : blocks[d] = IF d = c THEN b ELSE h.blocks[d]
  BY <1>2
<1>9. /\ sl \in [FLs -> SUBSET SLs] /\ fl \in SUBSET FLs
      /\ \A i \in FLs : sl[i] = IF i = x THEN h.sl_bitmap[i] \cup {y} ELSE h.sl_bitmap[i]
  BY <1>2
<1> HIDE DEF blocks, sl, m
<1>10. g.mem = m /\ g.blocks = blocks /\ g.sl_bitmap = sl /\ g.fl_bitmap = fl /\ Dom(g) = Dom(h)
  <2>1. DOMAIN m = Dom(h)
    BY <1>7
  <2>2. g.mem = m /\ g.blocks = blocks /\ g.sl_bitmap = sl /\ g.fl_bitmap = fl
    BY <1>1
  <2> QED
    BY <2>1, <2>2 DEF Dom
<1>11. HeapType(g)
  <2>1. g \in Heaps(Dom(h))
    BY <1>1, <1>7, <1>8, <1>9 DEF Heaps
  <2> QED
    BY <1>2, <1>10, <2>1 DEF HeapType
<1>12. LinksOnly(h, g)
  BY <1>6, <1>10 DEF LinksOnly
<1>13. ASSUME NEW d \in Classes PROVE d[2] \in sl[d[1]] <=> blocks[d] # 0
  <2>1. d[1] \in FLs /\ d[2] \in SLs /\ d = <<d[1], d[2]>>
    BY DEF Classes
  <2>2. d[2] \in h.sl_bitmap[d[1]] <=> h.blocks[d] # 0
    BY DEF Index, Bitmaps
  <2>3. CASE d = c
    <3>1. d[1] = x /\ d[2] = y
      BY <2>3 DEF x, y
    <3>2. blocks[d] = b /\ b # 0
      BY <1>3, <1>8, <2>3
    <3> QED
      BY <1>2, <1>9, <3>1, <3>2
  <2>4. CASE d # c
    <3>1. d[1] # x \/ d[2] # y
      BY <1>2, <2>1, <2>4
    <3>2. blocks[d] = h.blocks[d]
      BY <1>8, <2>4
    <3>3. d[2] \in sl[d[1]] <=> d[2] \in h.sl_bitmap[d[1]]
      BY <1>9, <2>1, <3>1
    <3> QED
      BY <2>2, <3>2, <3>3
  <2> QED
    BY <2>3, <2>4
<1>14. ASSUME NEW i \in FLs PROVE i \in fl <=> sl[i] # {}
  <2>1. i \in h.fl_bitmap <=> h.sl_bitmap[i] # {}
    BY DEF Index, Bitmaps
  <2> QED
    BY <1>9, <2>1
<1>15. Bitmaps(g)
  BY <1>10, <1>13, <1>14 DEF Bitmaps
<1>16. ASSUME NEW d \in Classes PROVE IsListed(g, d, Members(g, N \cup {b}, d))
  <2>1. \A a \in N \cup {b} : g.mem[a].size = h.mem[a].size
    BY <1>2, <1>6, <1>10
  <2>2. CASE d = c
    <3>1. g.blocks[c] = b /\ g.mem[b].next_free = q /\ g.mem[b].prev_free = 0
      BY <1>2, <1>6, <1>8, <1>10
    <3>2. M \subseteq Dom(h)
      BY <1>2 DEF M, Members
    <3>3. \A a \in M : /\ g.mem[a].next_free = h.mem[a].next_free
                      /\ g.mem[a].prev_free = (IF a = q THEN b ELSE h.mem[a].prev_free)
      BY <1>3, <1>6, <1>10, <3>2
    <3>4. PICK s, len : Listed(h, c, M, s, len)
      BY <1>3 DEF IsListed
    <3>5. IsListed(g, c, M \cup {b})
      BY <1>3, <3>1, <3>3, <3>4, ListedInsert DEF q, IsListed
    <3>6. Members(g, N \cup {b}, d) = M \cup {b}
      BY <2>1, <2>2 DEF Members, M
    <3> QED
      BY <2>2, <3>5, <3>6
  <2>3. CASE d # c
    <3> DEFINE K == Members(h, N, d)
    <3>1. PICK z, l : Listed(h, d, K, z, l)
      BY DEF Index, IsListed
    <3>2. \A a \in K : a \notin M /\ a \in Dom(h) /\ a # 0 /\ a # b
      BY <1>2, <2>3 DEF Members, M
    <3>3. Members(g, N \cup {b}, d) = K
      BY <2>1, <2>3 DEF Members
    <3> HIDE DEF K
    <3>4. g.blocks[d] = h.blocks[d]
      BY <1>8, <1>10, <2>3
    <3>5. \A a \in K : g.mem[a].prev_free = h.mem[a].prev_free /\ g.mem[a].next_free = h.mem[a].next_free
      BY <1>4, <1>6, <1>10, <3>2
    <3>6. Listed(g, d, K, z, l)
      BY <3>1, <3>4, <3>5, ListedSame
    <3> QED
      BY <3>3, <3>6 DEF IsListed
  <2> QED
    BY <2>2, <2>3
<1>17. Index(g, N \cup {b})
  <2>1. N \cup {b} \subseteq Dom(g)
    BY <1>2, <1>10
  <2> QED
    BY <1>15, <1>16, <2>1 DEF Index
<1> QED
  BY <1>11, <1>12, <1>17 DEF g

-----------------------------------------------------------------------------
(* The blocks and their neighbours                                         *)

Aligned(x) == x % ALIGN_SIZE = 0

\* Sums and differences of aligned numbers, with a header's word or without.
LEMMA AlignedIs ==
    ASSUME NEW x \in Int, NEW y \in Int, Aligned(x), Aligned(y)
    PROVE  Aligned(x + y) /\ Aligned(x - y) /\ Aligned(x + y + 8) /\ Aligned(x + 8 + y) /\ Aligned(x - y - 8)
           /\ Aligned(x - (y + 8))
<1>1. CASE ALIGN_SIZE = 4
  BY <1>1 DEF Aligned
<1>2. CASE ALIGN_SIZE = 8
  BY <1>2 DEF Aligned
<1> QED
  BY <1>1, <1>2, Constants

\* The block at b ends where the next header begins, and that header says
\* whether it is free, and where it begins if it is.
Chained(h, b) ==
    /\ h.mem[b].size >= 24
    /\ block_next(h, b) \in Dom(h)
    /\ h.mem[block_next(h, b)].prev_is_free = h.mem[b].is_free
    /\ h.mem[b].is_free => h.mem[block_next(h, b)].prev_phys_block = b
    /\ \A a \in Dom(h) : a <= b \/ block_next(h, b) <= a

\* T is the empty block at the end of the pool.
Ends(h, T) ==
    /\ FirstBlock \in Dom(h) /\ ~h.mem[FirstBlock].prev_is_free
    /\ T \in Dom(h) /\ h.mem[T].size = 0 /\ ~h.mem[T].is_free
    /\ FirstBlock < T /\ T < FirstBlock + 8 + block_size_max
    /\ \A a \in Dom(h) : FirstBlock <= a /\ a <= T

Tags(h, T) ==
    /\ HeapType(h) /\ Ends(h, T)
    /\ \A a \in Dom(h) : Aligned(a) /\ Aligned(h.mem[a].size)
    /\ \A b \in Dom(h) \ {T} : Chained(h, b)
    /\ \A a \in Dom(h) \ {FirstBlock} : \E b \in Dom(h) \ {T} : block_next(h, b) = a

FreeOf(h) == {b \in Dom(h) : h.mem[b].is_free}
UsedOf(h, T) == {b \in Dom(h) \ {T} : ~h.mem[b].is_free}

\* Addresses of a tiled pool.
LEMMA TagsType ==
    ASSUME NEW h, NEW T, Tags(h, T)
    PROVE  /\ HeapType(h) /\ T \in Dom(h) /\ T \in Nat /\ FirstBlock \in Dom(h) /\ FirstBlock \in Nat
           /\ \A a \in Dom(h) : a \in Nat /\ FirstBlock <= a /\ a <= T
           /\ T \notin FreeOf(h) /\ FreeOf(h) \subseteq Dom(h) \ {T}
           /\ UsedOf(h, T) \cap FreeOf(h) = {}
           /\ block_size_max \in Nat
BY Constants DEF Tags, Ends, HeapType, FreeOf, UsedOf

\* What follows a block lies behind it, and no other block leads there.
LEMMA NextIs ==
    ASSUME NEW h, NEW T, Tags(h, T), NEW b \in Dom(h) \ {T}
    PROVE  /\ b \in Nat /\ h.mem[b].size \in Nat /\ h.mem[b].size >= 24 /\ h.mem[b].size < block_size_max
           /\ block_next(h, b) = b + 8 + h.mem[b].size
           /\ block_next(h, b) \in Dom(h) /\ block_next(h, b) \in Nat /\ b < block_next(h, b)
           /\ block_next(h, b) # FirstBlock /\ block_next(h, b) # b /\ block_next(h, b) <= T
           /\ \A c \in Dom(h) \ {T} : block_next(h, c) = block_next(h, b) => c = b
           /\ \A a \in Dom(h) : a <= b \/ block_next(h, b) <= a
<1>1. HeapType(h) /\ T \in Nat /\ FirstBlock \in Nat /\ block_size_max \in Nat
      /\ \A a \in Dom(h) : a \in Nat /\ FirstBlock <= a /\ a <= T
  BY TagsType
<1>2. ASSUME NEW c \in Dom(h) \ {T}
      PROVE  /\ c \in Nat /\ h.mem[c].size \in Nat /\ h.mem[c].size >= 24
             /\ block_next(h, c) = c + 8 + h.mem[c].size
             /\ block_next(h, c) \in Dom(h) /\ block_next(h, c) \in Nat /\ c < block_next(h, c)
             /\ \A a \in Dom(h) : a <= c \/ block_next(h, c) <= a
  <2>1. Chained(h, c)
    BY DEF Tags
  <2>2. c \in Nat /\ h.mem[c].size \in Nat /\ block_next(h, c) = c + 8 + h.mem[c].size
    BY <1>1, HeaderTypes
  <2>3. c < block_next(h, c) /\ block_next(h, c) \in Nat
    BY <2>2
  <2> QED
    BY <2>1, <2>2, <2>3 DEF Chained
<1>3. block_next(h, b) # FirstBlock /\ block_next(h, b) # b /\ block_next(h, b) <= T
  BY <1>1, <1>2
<1>4. h.mem[b].size < block_size_max
  <2>1. T < FirstBlock + 8 + block_size_max /\ FirstBlock <= b
    BY <1>1 DEF Tags, Ends
  <2> QED
    BY <1>1, <1>2, <1>3, <2>1
<1>5. ASSUME NEW c \in Dom(h) \ {T}, block_next(h, c) = block_next(h, b) PROVE c = b
  <2>1. c <= b \/ block_next(h, b) <= c
    BY <1>2
  <2>2. b <= c \/ block_next(h, c) <= b
    BY <1>2
  <2>3. c < block_next(h, c) /\ b < block_next(h, b) /\ c \in Nat /\ b \in Nat /\ block_next(h, b) \in Nat
    BY <1>2
  <2> QED
    BY <1>5, <2>1, <2>2, <2>3
<1> QED
  BY <1>2, <1>3, <1>4, <1>5

\* A header whose flag is set has a free block in front of it, to which it leads.
LEMMA PrevIs ==
    ASSUME NEW h, NEW T, Tags(h, T), NEW a \in Dom(h), h.mem[a].prev_is_free
    PROVE  LET p == h.mem[a].prev_phys_block
           IN  p \in FreeOf(h) /\ p \in Dom(h) \ {T} /\ block_next(h, p) = a
<1>1. a # FirstBlock
  BY DEF Tags, Ends
<1>2. PICK p \in Dom(h) \ {T} : block_next(h, p) = a
  BY <1>1 DEF Tags
<1>3. Chained(h, p)
  BY DEF Tags
<1>4. h.mem[p].is_free /\ h.mem[a].prev_phys_block = p
  BY <1>2, <1>3 DEF Chained
<1> QED
  BY <1>2, <1>4 DEF FreeOf

\* Every block's size has a list.
LEMMA FreeClass ==
    ASSUME NEW h, NEW T, Tags(h, T), NEW b \in Dom(h) \ {T}
    PROVE  mapping_insert(h.mem[b].size) \in Classes
<1>1. h.mem[b].size \in Nat /\ h.mem[b].size < block_size_max
  BY NextIs
<1> QED
  BY <1>1, ClassIs DEF Classes

\* Tiling and flags do not depend on the free lists.
LEMMA LinksTags ==
    ASSUME NEW h, NEW g, NEW T, Tags(h, T), HeapType(g), LinksOnly(h, g)
    PROVE  /\ Tags(g, T) /\ Dom(g) = Dom(h) /\ FreeOf(g) = FreeOf(h) /\ UsedOf(g, T) = UsedOf(h, T)
           /\ \A b \in Dom(h) : block_next(g, b) = block_next(h, b)
<1>1. Dom(g) = Dom(h)
  BY DEF LinksOnly
<1>2. \A a \in Dom(h) : /\ g.mem[a].size = h.mem[a].size /\ g.mem[a].is_free = h.mem[a].is_free
                       /\ g.mem[a].prev_is_free = h.mem[a].prev_is_free
                       /\ g.mem[a].prev_phys_block = h.mem[a].prev_phys_block
                       /\ block_next(g, a) = block_next(h, a)
  BY DEF LinksOnly, block_next
<1>3. FreeOf(g) = FreeOf(h) /\ UsedOf(g, T) = UsedOf(h, T)
  BY <1>1, <1>2 DEF FreeOf, UsedOf
<1>4. Ends(g, T)
  <2>1. Ends(h, T)
    BY DEF Tags
  <2>2. FirstBlock \in Dom(h) /\ T \in Dom(h)
    BY <2>1 DEF Ends
  <2> QED
    BY <1>1, <1>2, <2>1, <2>2 DEF Ends
<1>5. \A a \in Dom(g) : Aligned(a) /\ Aligned(g.mem[a].size)
  BY <1>1, <1>2 DEF Tags
<1>6. ASSUME NEW b \in Dom(h) \ {T} PROVE Chained(g, b)
  <2>1. Chained(h, b) /\ b \in Dom(h)
    BY DEF Tags
  <2> QED
    BY <1>1, <1>2, <2>1 DEF Chained
<1>7. \A a \in Dom(g) \ {FirstBlock} : \E b \in Dom(g) \ {T} : block_next(g, b) = a
  <2>1. \A a \in Dom(h) \ {FirstBlock} : \E b \in Dom(h) \ {T} : block_next(h, b) = a
    BY DEF Tags
  <2> QED
    BY <1>1, <1>2, <2>1
<1> QED
  BY <1>1, <1>2, <1>3, <1>4, <1>5, <1>6, <1>7 DEF Tags

-----------------------------------------------------------------------------
(* Joining, cutting and marking blocks                                     *)

\* From h to g, p has taken over b behind it.
IsAbsorbed(h, g, p, b) ==
    /\ HeapType(g) /\ Dom(g) = Dom(h) \ {b}
    /\ \A a \in Dom(g) :
          /\ g.mem[a].size = (IF a = p THEN h.mem[p].size + h.mem[b].size + 8 ELSE h.mem[a].size)
          /\ g.mem[a].is_free = h.mem[a].is_free /\ g.mem[a].prev_is_free = h.mem[a].prev_is_free
          /\ g.mem[a].prev_phys_block = (IF a = block_next(h, b) THEN p ELSE h.mem[a].prev_phys_block)

AbsorbedIs(h, g, T, p, b) ==
    /\ Tags(g, T) /\ FreeOf(g) = FreeOf(h) \ {b} /\ UsedOf(g, T) = UsedOf(h, T)
    /\ block_next(g, p) = block_next(h, b)
    /\ \A a \in Dom(g) \ {p} : block_next(g, a) = block_next(h, a) /\ g.mem[a].size = h.mem[a].size
    /\ g.mem[p].prev_is_free = h.mem[p].prev_is_free

\* Joining two neighbours keeps the pool tiled.
LEMMA AbsorbedTags ==
    ASSUME NEW h, NEW g, NEW T, Tags(h, T), NEW p \in FreeOf(h), NEW b \in FreeOf(h),
           block_next(h, p) = b, IsAbsorbed(h, g, p, b)
    PROVE  AbsorbedIs(h, g, T, p, b)
<1> DEFINE nn == block_next(h, b)
           x == h.mem[p].size
           y == h.mem[b].size
<1>1. /\ HeapType(h) /\ T \in Nat /\ FirstBlock \in Nat
      /\ p \in Dom(h) \ {T} /\ b \in Dom(h) \ {T} /\ p \in Dom(h) /\ b \in Dom(h)
      /\ h.mem[p].is_free /\ h.mem[b].is_free /\ ~h.mem[T].is_free
  BY TagsType DEF FreeOf
<1>2. /\ p \in Nat /\ x \in Nat /\ x >= 24 /\ b = p + 8 + x /\ p < b /\ b # FirstBlock /\ p # b
      /\ \A c \in Dom(h) \ {T} : block_next(h, c) = b => c = p
      /\ \A a \in Dom(h) : a <= p \/ b <= a
  BY <1>1, NextIs
<1>3. /\ b \in Nat /\ y \in Nat /\ y >= 24 /\ nn = b + 8 + y /\ nn \in Dom(h) /\ nn \in Nat
      /\ b < nn /\ nn # FirstBlock /\ nn # b
      /\ \A c \in Dom(h) \ {T} : block_next(h, c) = nn => c = b
      /\ \A a \in Dom(h) : a <= b \/ nn <= a
  BY <1>1, NextIs
<1>4. /\ HeapType(g) /\ Dom(g) = Dom(h) \ {b} /\ p \in Dom(g) /\ nn \in Dom(g) /\ nn # p
      /\ \A a \in Dom(g) :
          /\ g.mem[a].size = (IF a = p THEN x + y + 8 ELSE h.mem[a].size)
          /\ g.mem[a].is_free = h.mem[a].is_free /\ g.mem[a].prev_is_free = h.mem[a].prev_is_free
          /\ g.mem[a].prev_phys_block = (IF a = nn THEN p ELSE h.mem[a].prev_phys_block)
  <2>1. /\ HeapType(g) /\ Dom(g) = Dom(h) \ {b}
        /\ \A a \in Dom(g) :
            /\ g.mem[a].size = (IF a = p THEN x + y + 8 ELSE h.mem[a].size)
            /\ g.mem[a].is_free = h.mem[a].is_free /\ g.mem[a].prev_is_free = h.mem[a].prev_is_free
            /\ g.mem[a].prev_phys_block = (IF a = nn THEN p ELSE h.mem[a].prev_phys_block)
    BY Zenon DEF IsAbsorbed
  <2> HIDE DEF nn, x, y
  <2>2. nn # p
    BY <1>2, <1>3
  <2> QED
    BY <1>1, <1>2, <1>3, <2>1, <2>2, Zenon
<1> HIDE DEF nn, x, y
<1>5. \A a \in Dom(g) \ {p} : block_next(g, a) = block_next(h, a) /\ g.mem[a].size = h.mem[a].size
  BY <1>4 DEF block_next
<1>6. block_next(g, p) = nn
  <2>1. block_next(g, p) = p + 8 + g.mem[p].size
    BY <1>4, HeaderTypes
  <2> QED
    BY <1>2, <1>3, <1>4, <2>1
<1>7. FreeOf(g) = FreeOf(h) \ {b} /\ UsedOf(g, T) = UsedOf(h, T)
  BY <1>1, <1>4 DEF FreeOf, UsedOf
<1>8. Ends(g, T)
  <2>1. Ends(h, T) /\ b # T /\ p # T
    BY <1>1 DEF Tags
  <2>2. FirstBlock \in Dom(h) /\ T \in Dom(h)
    BY <2>1 DEF Ends
  <2> QED
    BY <1>2, <1>4, <2>1, <2>2 DEF Ends
<1>9. \A a \in Dom(g) : Aligned(a) /\ Aligned(g.mem[a].size)
  <2>1. \A a \in Dom(h) : Aligned(a) /\ Aligned(h.mem[a].size)
    BY DEF Tags
  <2>2. Aligned(x + y + 8)
    <3>1. Aligned(x) /\ Aligned(y)
      BY <1>1, <2>1 DEF x, y
    <3> QED
      BY <1>2, <1>3, <3>1, AlignedIs
  <2> QED
    BY <1>4, <2>1, <2>2
<1>10. ASSUME NEW a \in Dom(g) \ {T} PROVE Chained(g, a)
  <2>1. CASE a = p
    <3>1. Chained(h, b)
      BY <1>1 DEF Tags
    <3>2. h.mem[nn].prev_is_free = h.mem[b].is_free
      BY <3>1 DEF Chained, nn
    <3>3. g.mem[nn].prev_is_free = g.mem[p].is_free /\ g.mem[nn].prev_phys_block = p
      BY <1>1, <1>4, <3>2
    <3>4. g.mem[p].size >= 24
      BY <1>2, <1>3, <1>4
    <3>5. \A w \in Dom(g) : w <= p \/ nn <= w
      <4>1. ASSUME NEW w \in Dom(g) PROVE w <= p \/ nn <= w
        <5>1. w \in Dom(h) /\ w # b /\ w \in Nat
          BY <1>1, <1>4 DEF HeapType
        <5> QED
          BY <1>2, <1>3, <5>1
      <4> QED
        BY <4>1
    <3> QED
      BY <1>4, <1>6, <2>1, <3>3, <3>4, <3>5 DEF Chained
  <2>2. CASE a # p
    <3>1. a \in Dom(h) \ {T} /\ a # b /\ Chained(h, a)
      BY <1>4 DEF Tags
    <3>2. block_next(h, a) # b /\ block_next(h, a) # nn
      BY <1>2, <1>3, <2>2, <3>1
    <3>3. block_next(g, a) = block_next(h, a) /\ g.mem[a].size = h.mem[a].size
          /\ g.mem[a].is_free = h.mem[a].is_free
      BY <1>4, <1>5, <2>2
    <3>4. block_next(h, a) \in Dom(g)
      BY <1>4, <3>1, <3>2 DEF Chained
    <3>5. /\ g.mem[block_next(h, a)].prev_is_free = h.mem[block_next(h, a)].prev_is_free
          /\ g.mem[block_next(h, a)].prev_phys_block = h.mem[block_next(h, a)].prev_phys_block
      BY <1>4, <3>2, <3>4
    <3> QED
      BY <1>4, <3>1, <3>3, <3>4, <3>5 DEF Chained
  <2> QED
    BY <2>1, <2>2
<1>11. ASSUME NEW a \in Dom(g) \ {FirstBlock} PROVE \E c \in Dom(g) \ {T} : block_next(g, c) = a
  <2>1. PICK c \in Dom(h) \ {T} : block_next(h, c) = a
    BY <1>4 DEF Tags
  <2>2. CASE c = b
    BY <1>1, <1>4, <1>6, <2>1, <2>2 DEF nn
  <2>3. CASE c # b
    <3>1. c # p
      BY <1>4, <2>1
    <3> QED
      BY <1>4, <1>5, <2>1, <2>3, <3>1
  <2> QED
    BY <2>2, <2>3
<1>12. Tags(g, T)
  BY <1>4, <1>8, <1>9, <1>10, <1>11 DEF Tags
<1>13. g.mem[p].prev_is_free = h.mem[p].prev_is_free
  BY <1>4
<1> QED
  BY <1>5, <1>6, <1>7, <1>12, <1>13 DEF nn, AbsorbedIs

\* From h to g, b is cut behind its first size bytes; both parts are free.
IsSplit(h, g, b, size, rest) ==
    /\ HeapType(g) /\ Dom(g) = Dom(h) \cup {rest}
    /\ \A a \in Dom(g) :
          /\ g.mem[a].size = (IF a = b THEN size ELSE IF a = rest THEN h.mem[b].size - (size + 8) ELSE h.mem[a].size)
          /\ g.mem[a].is_free = (IF a = rest THEN TRUE ELSE h.mem[a].is_free)
          /\ g.mem[a].prev_is_free = (IF a = rest \/ a = block_next(h, b) THEN TRUE ELSE h.mem[a].prev_is_free)
          /\ g.mem[a].prev_phys_block =
                (IF a = rest THEN b ELSE IF a = block_next(h, b) THEN rest ELSE h.mem[a].prev_phys_block)

\* Splitting a block in two keeps the pool tiled.
LEMMA SplitTags ==
    ASSUME NEW h, NEW g, NEW T, Tags(h, T), NEW b \in FreeOf(h), NEW size \in Nat, size >= 24, Aligned(size),
           size + 32 <= h.mem[b].size, IsSplit(h, g, b, size, b + 8 + size)
    PROVE  LET rest == b + 8 + size
           IN  /\ Tags(g, T) /\ rest \notin Dom(h) /\ rest # T /\ rest # b
               /\ FreeOf(g) = FreeOf(h) \cup {rest} /\ UsedOf(g, T) = UsedOf(h, T)
               /\ g.mem[b].size = size /\ g.mem[rest].size = h.mem[b].size - (size + 8)
               /\ block_next(g, b) = rest /\ block_next(g, rest) = block_next(h, b)
               /\ \A a \in Dom(h) \ {b} : block_next(g, a) = block_next(h, a) /\ g.mem[a].size = h.mem[a].size
               /\ g.mem[b].prev_is_free = h.mem[b].prev_is_free
<1> DEFINE rest == b + 8 + size
           n == block_next(h, b)
           x == h.mem[b].size
<1>1. /\ HeapType(h) /\ T \in Nat /\ FirstBlock \in Nat /\ T \in Dom(h) /\ FirstBlock \in Dom(h)
      /\ b \in Dom(h) \ {T} /\ b \in Dom(h) /\ h.mem[b].is_free /\ ~h.mem[T].is_free
  BY TagsType DEF FreeOf
<1>2. /\ b \in Nat /\ x \in Nat /\ n = b + 8 + x /\ n \in Dom(h) /\ n \in Nat /\ b < n /\ n <= T
      /\ \A c \in Dom(h) \ {T} : block_next(h, c) = n => c = b
      /\ \A a \in Dom(h) : a <= b \/ n <= a
  BY <1>1, NextIs
<1>3. rest \in Nat /\ b < rest /\ rest < n /\ rest # b /\ rest # n /\ rest < T /\ rest # T
      /\ x - (size + 8) \in Nat /\ x - (size + 8) >= 24 /\ rest + 8 + (x - (size + 8)) = n
  BY <1>1, <1>2
<1> HIDE DEF rest, n
<1>4. rest \notin Dom(h)
  <2>1. ASSUME rest \in Dom(h) PROVE FALSE
    <3>1. rest <= b \/ n <= rest
      BY <1>2, <2>1
    <3> QED
      BY <1>2, <1>3, <3>1
  <2> QED
    BY <2>1
<1>5. /\ HeapType(g) /\ Dom(g) = Dom(h) \cup {rest}
      /\ \A a \in Dom(g) :
          /\ g.mem[a].size = (IF a = b THEN size ELSE IF a = rest THEN x - (size + 8) ELSE h.mem[a].size)
          /\ g.mem[a].is_free = (IF a = rest THEN TRUE ELSE h.mem[a].is_free)
          /\ g.mem[a].prev_is_free = (IF a = rest \/ a = n THEN TRUE ELSE h.mem[a].prev_is_free)
          /\ g.mem[a].prev_phys_block =
                (IF a = rest THEN b ELSE IF a = n THEN rest ELSE h.mem[a].prev_phys_block)
  BY DEF IsSplit, rest, n
<1> HIDE DEF x
<1>6. \A a \in Dom(h) \ {b} : block_next(g, a) = block_next(h, a) /\ g.mem[a].size = h.mem[a].size
  BY <1>4, <1>5 DEF block_next
<1>7. block_next(g, b) = rest /\ block_next(g, rest) = n
  <2>1. block_next(g, b) = b + 8 + g.mem[b].size /\ block_next(g, rest) = rest + 8 + g.mem[rest].size
    BY <1>1, <1>5, HeaderTypes
  <2>2. g.mem[b].size = size /\ g.mem[rest].size = x - (size + 8)
    BY <1>1, <1>3, <1>5
  <2> QED
    BY <1>3, <2>1, <2>2 DEF rest
<1>8. FreeOf(g) = FreeOf(h) \cup {rest} /\ UsedOf(g, T) = UsedOf(h, T)
  BY <1>4, <1>5 DEF FreeOf, UsedOf
<1>9. Ends(g, T)
  <2>1. Ends(h, T)
    BY DEF Tags
  <2>2. n # FirstBlock
    BY <1>1, NextIs DEF n
  <2>3. FirstBlock <= b
    BY <1>1, <2>1 DEF Ends
  <2>4. ~g.mem[FirstBlock].prev_is_free /\ g.mem[T].size = 0 /\ ~g.mem[T].is_free
    BY <1>1, <1>4, <1>5, <2>1, <2>2 DEF Ends
  <2>5. FirstBlock <= rest /\ rest <= T
    BY <1>1, <1>2, <1>3, <2>3
  <2> QED
    BY <1>5, <2>1, <2>4, <2>5 DEF Ends
<1>10. \A a \in Dom(g) : Aligned(a) /\ Aligned(g.mem[a].size)
  <2>1. \A a \in Dom(h) : Aligned(a) /\ Aligned(h.mem[a].size)
    BY DEF Tags
  <2>2. Aligned(x) /\ Aligned(b)
    BY <1>1, <2>1 DEF x
  <2>3. Aligned(x - (size + 8))
    BY <1>2, <2>2, AlignedIs
  <2>4. Aligned(rest)
    BY <1>2, <2>2, AlignedIs DEF rest
  <2> QED
    BY <1>5, <2>1, <2>3, <2>4
<1>11. ASSUME NEW a \in Dom(g) \ {T} PROVE Chained(g, a)
  <2>1. CASE a = b
    <3>1. /\ g.mem[rest].prev_is_free /\ g.mem[rest].prev_phys_block = b
          /\ g.mem[b].is_free /\ g.mem[b].size = size
      BY <1>1, <1>3, <1>5
    <3>2. \A w \in Dom(g) : w <= b \/ rest <= w
      <4>1. ASSUME NEW w \in Dom(h) PROVE w <= b \/ rest <= w
        <5>1. w \in Nat /\ (w <= b \/ n <= w)
          BY <1>1, <1>2 DEF HeapType
        <5> QED
          BY <1>2, <1>3, <5>1
      <4>2. rest <= rest
        BY <1>3
      <4> QED
        BY <1>5, <4>1, <4>2
    <3>3. rest \in Dom(g)
      BY <1>5
    <3> QED
      BY <1>7, <2>1, <3>1, <3>2, <3>3 DEF Chained
  <2>2. CASE a = rest
    <3>1. /\ g.mem[n].prev_is_free /\ g.mem[n].prev_phys_block = rest
          /\ g.mem[rest].is_free /\ g.mem[rest].size = x - (size + 8)
      BY <1>2, <1>3, <1>5
    <3>2. \A w \in Dom(g) : w <= rest \/ n <= w
      <4>1. ASSUME NEW w \in Dom(h) PROVE w <= rest \/ n <= w
        <5>1. w \in Nat /\ (w <= b \/ n <= w)
          BY <1>1, <1>2 DEF HeapType
        <5> QED
          BY <1>2, <1>3, <5>1
      <4>2. rest <= rest
        BY <1>3
      <4> QED
        BY <1>5, <4>1, <4>2
    <3>3. n \in Dom(g)
      BY <1>2, <1>5
    <3> QED
      BY <1>3, <1>7, <2>2, <3>1, <3>2, <3>3 DEF Chained
  <2>3. CASE a # b /\ a # rest
    <3> DEFINE y == block_next(h, a)
    <3>1. a \in Dom(h) \ {T} /\ Chained(h, a)
      BY <1>5, <2>3 DEF Tags
    <3>2. y # n /\ y \in Dom(h) /\ y # rest
      BY <1>2, <1>4, <2>3, <3>1 DEF Chained
    <3>3. block_next(g, a) = y /\ g.mem[a].size = h.mem[a].size /\ g.mem[a].is_free = h.mem[a].is_free
      BY <1>5, <1>6, <2>3, <3>1
    <3>4. /\ y \in Dom(g) /\ g.mem[y].prev_is_free = h.mem[y].prev_is_free
          /\ g.mem[y].prev_phys_block = h.mem[y].prev_phys_block
      BY <1>5, <3>2
    <3>5. \A w \in Dom(g) : w <= a \/ y <= w
      <4>1. \A w \in Dom(h) : w <= a \/ y <= w
        BY <3>1 DEF Chained
      <4>2. a \in Nat /\ y \in Nat
        BY <1>1, <3>1, <3>2 DEF HeapType
      <4>3. b <= a \/ y <= b
        BY <1>1, <4>1
      <4>4. a <= b \/ n <= a
        BY <1>2, <3>1
      <4>5. y <= b \/ n <= y
        BY <1>2, <3>2
      <4>6. rest <= a \/ y <= rest
        BY <1>2, <1>3, <2>3, <4>2, <4>3, <4>4
      <4> HIDE DEF y
      <4> QED
        BY <1>5, <4>1, <4>6
    <3> HIDE DEF y
    <3>6. Chained(h, a) /\ y = block_next(h, a)
      BY <3>1 DEF y
    <3> QED
      BY <3>3, <3>4, <3>5, <3>6 DEF Chained
  <2> QED
    BY <2>1, <2>2, <2>3
<1>12. ASSUME NEW a \in Dom(g) \ {FirstBlock} PROVE \E c \in Dom(g) \ {T} : block_next(g, c) = a
  <2>1. CASE a = rest
    BY <1>1, <1>5, <1>7, <2>1
  <2>2. CASE a # rest
    <3>1. PICK c \in Dom(h) \ {T} : block_next(h, c) = a
      BY <1>5, <2>2 DEF Tags
    <3>2. CASE c = b
      <4>1. a = n
        BY <3>1, <3>2 DEF n
      <4> QED
        BY <1>3, <1>5, <1>7, <4>1
    <3>3. CASE c # b
      BY <1>5, <1>6, <3>1, <3>3
    <3> QED
      BY <3>2, <3>3
  <2> QED
    BY <2>1, <2>2
<1>13. Tags(g, T)
  BY <1>5, <1>9, <1>10, <1>11, <1>12 DEF Tags
<1>14. /\ g.mem[b].prev_is_free = h.mem[b].prev_is_free /\ g.mem[b].size = size
       /\ g.mem[rest].size = x - (size + 8)
  <2>1. b \in Dom(g) /\ rest \in Dom(g) /\ b # n /\ b # rest
    BY <1>1, <1>2, <1>3, <1>5
  <2> QED
    BY <1>5, <2>1
<1> QED
  BY <1>3, <1>4, <1>6, <1>7, <1>8, <1>13, <1>14 DEF rest, n, x

\* From h to g, b is marked as free (1) or as used (0).
IsFlagged(h, g, b, bit) ==
    /\ HeapType(g) /\ Dom(g) = Dom(h)
    /\ \A a \in Dom(h) :
          /\ g.mem[a].size = h.mem[a].size
          /\ g.mem[a].is_free = (IF a = b THEN bit = 1 ELSE h.mem[a].is_free)
          /\ g.mem[a].prev_is_free = (IF a = block_next(h, b) THEN bit = 1 ELSE h.mem[a].prev_is_free)
          /\ a # block_next(h, b) => g.mem[a].prev_phys_block = h.mem[a].prev_phys_block
    /\ bit = 1 => g.mem[block_next(h, b)].prev_phys_block = b

\* Changing a block's free bit, and its neighbour's flag with it, keeps the
\* pool tiled.
LEMMA FlaggedTags ==
    ASSUME NEW h, NEW g, NEW T, Tags(h, T), NEW b \in Dom(h) \ {T}, NEW bit \in {0, 1},
           IsFlagged(h, g, b, bit)
    PROVE  /\ Tags(g, T)
           /\ FreeOf(g) = (IF bit = 1 THEN FreeOf(h) \cup {b} ELSE FreeOf(h) \ {b})
           /\ UsedOf(g, T) = (IF bit = 1 THEN UsedOf(h, T) \ {b} ELSE UsedOf(h, T) \cup {b})
           /\ Dom(g) = Dom(h)
           /\ \A a \in Dom(h) : block_next(g, a) = block_next(h, a) /\ g.mem[a].size = h.mem[a].size
<1> DEFINE n == block_next(h, b)
<1>1. /\ HeapType(h) /\ T \in Dom(h) /\ FirstBlock \in Dom(h) /\ b \in Dom(h) /\ b # T
  BY TagsType
<1>2. /\ n \in Dom(h) /\ n # FirstBlock /\ n # b
      /\ \A c \in Dom(h) \ {T} : block_next(h, c) = n => c = b
  BY NextIs
<1>3. /\ HeapType(g) /\ Dom(g) = Dom(h)
      /\ \A a \in Dom(h) :
          /\ g.mem[a].size = h.mem[a].size
          /\ g.mem[a].is_free = (IF a = b THEN bit = 1 ELSE h.mem[a].is_free)
          /\ g.mem[a].prev_is_free = (IF a = n THEN bit = 1 ELSE h.mem[a].prev_is_free)
          /\ a # n => g.mem[a].prev_phys_block = h.mem[a].prev_phys_block
      /\ bit = 1 => g.mem[n].prev_phys_block = b
  BY DEF IsFlagged
<1>4. \A a \in Dom(h) : block_next(g, a) = block_next(h, a)
  BY <1>3 DEF block_next
<1> HIDE DEF n
<1>5. FreeOf(g) = (IF bit = 1 THEN FreeOf(h) \cup {b} ELSE FreeOf(h) \ {b})
  BY <1>1, <1>3 DEF FreeOf
<1>6. UsedOf(g, T) = (IF bit = 1 THEN UsedOf(h, T) \ {b} ELSE UsedOf(h, T) \cup {b})
  BY <1>1, <1>3 DEF UsedOf
<1>7. Ends(g, T)
  <2>1. Ends(h, T)
    BY DEF Tags
  <2> QED
    BY <1>1, <1>2, <1>3, <2>1 DEF Ends
<1>8. \A a \in Dom(g) : Aligned(a) /\ Aligned(g.mem[a].size)
  BY <1>3 DEF Tags
<1>9. ASSUME NEW a \in Dom(g) \ {T} PROVE Chained(g, a)
  <2>1. Chained(h, a) /\ a \in Dom(h) \ {T} /\ block_next(g, a) = block_next(h, a)
    BY <1>3, <1>4 DEF Tags
  <2>2. CASE a = b
    <3>1. block_next(g, a) = n /\ g.mem[n].prev_is_free = (bit = 1) /\ g.mem[a].is_free = (bit = 1)
      BY <1>1, <1>2, <1>3, <2>1, <2>2 DEF n
    <3>2. bit = 1 => g.mem[n].prev_phys_block = a
      BY <1>3, <2>2
    <3> QED
      BY <1>2, <1>3, <2>1, <3>1, <3>2 DEF Chained, n
  <2>3. CASE a # b
    <3>1. block_next(h, a) # n /\ block_next(h, a) \in Dom(h)
      BY <1>2, <2>1, <2>3 DEF Chained
    <3> QED
      BY <1>3, <2>1, <2>3, <3>1 DEF Chained
  <2> QED
    BY <2>2, <2>3
<1>10. \A a \in Dom(g) \ {FirstBlock} : \E c \in Dom(g) \ {T} : block_next(g, c) = a
  <2>1. \A a \in Dom(h) \ {FirstBlock} : \E c \in Dom(h) \ {T} : block_next(h, c) = a
    BY DEF Tags
  <2> QED
    BY <1>3, <1>4, <2>1
<1>11. Tags(g, T)
  BY <1>3, <1>7, <1>8, <1>9, <1>10 DEF Tags
<1> QED
  BY <1>3, <1>4, <1>5, <1>6, <1>11

-----------------------------------------------------------------------------
(* What the block operations do to the headers                             *)

\* g has the lists of h.
SameLists(h, g) == g.blocks = h.blocks /\ g.fl_bitmap = h.fl_bitmap /\ g.sl_bitmap = h.sl_bitmap

WithMem(h, m) == [mem |-> m, blocks |-> h.blocks, fl_bitmap |-> h.fl_bitmap, sl_bitmap |-> h.sl_bitmap]

\* Exchanging the headers leaves the index alone.
LEMMA WithMemIs ==
    ASSUME NEW h, HeapType(h), NEW D \in SUBSET (Nat \ {0}), NEW m \in [D -> HeaderT]
    PROVE  LET g == WithMem(h, m)
           IN  HeapType(g) /\ Dom(g) = D /\ g.mem = m /\ SameLists(h, g)
<1> DEFINE g == WithMem(h, m)
<1>1. g.mem = m /\ g.blocks = h.blocks /\ g.fl_bitmap = h.fl_bitmap /\ g.sl_bitmap = h.sl_bitmap
  BY DEF WithMem
<1>2. Dom(g) = D
  BY <1>1 DEF Dom
<1>3. /\ h.blocks \in [Classes -> Int] /\ h.fl_bitmap \in SUBSET FLs /\ h.sl_bitmap \in [FLs -> SUBSET SLs]
  BY DEF HeapType, Heaps
<1>4. g \in Heaps(D)
  BY <1>3 DEF WithMem, Heaps
<1> QED
  BY <1>1, <1>2, <1>4 DEF HeapType, SameLists

\* block_link_next writes one word of the next header.
LEMMA LinkNextIs ==
    ASSUME NEW h, HeapType(h), NEW b \in Dom(h), NEW n \in Dom(h), block_next(h, b) = n
    PROVE  LET g == block_link_next(h, b)
           IN  /\ HeapType(g) /\ Dom(g) = Dom(h) /\ SameLists(h, g)
               /\ \A a \in Dom(h) :
                     /\ g.mem[a].size = h.mem[a].size /\ g.mem[a].is_free = h.mem[a].is_free
                     /\ g.mem[a].prev_is_free = h.mem[a].prev_is_free
                     /\ g.mem[a].prev_phys_block = (IF a = n THEN b ELSE h.mem[a].prev_phys_block)
                     /\ g.mem[a].next_free = h.mem[a].next_free /\ g.mem[a].prev_free = h.mem[a].prev_free
<1> DEFINE m == [a \in Dom(h) |-> IF a = n THEN [h.mem[a] EXCEPT !.prev_phys_block = b] ELSE h.mem[a]]
           g == block_link_next(h, b)
<1>1. g = WithMem(h, m)
  <2>1. h \in Heaps(Dom(h))
    BY DEF HeapType
  <2>2. [h EXCEPT !.mem[n].prev_phys_block = b] = WithMem(h, m)
    BY <2>1 DEF Heaps, Dom, WithMem
  <2> QED
    BY <2>2 DEF block_link_next
<1>2. ASSUME NEW a \in Dom(h)
      PROVE  /\ m[a] \in HeaderT
             /\ m[a].size = h.mem[a].size /\ m[a].is_free = h.mem[a].is_free
             /\ m[a].prev_is_free = h.mem[a].prev_is_free
             /\ m[a].prev_phys_block = (IF a = n THEN b ELSE h.mem[a].prev_phys_block)
             /\ m[a].next_free = h.mem[a].next_free /\ m[a].prev_free = h.mem[a].prev_free
  <2>1. h.mem[a] \in HeaderT /\ b \in Int
    BY HeaderTypes
  <2>2. m[a] = IF a = n THEN [h.mem[a] EXCEPT !.prev_phys_block = b] ELSE h.mem[a]
    OBVIOUS
  <2> HIDE DEF m
  <2> QED
    BY <2>1, <2>2 DEF HeaderT
<1>3. m \in [Dom(h) -> HeaderT] /\ Dom(h) \in SUBSET (Nat \ {0})
  BY <1>2 DEF HeapType
<1> HIDE DEF m, g
<1>4. HeapType(g) /\ Dom(g) = Dom(h) /\ g.mem = m /\ SameLists(h, g)
  BY <1>1, <1>3, WithMemIs
<1> QED
  BY <1>2, <1>4 DEF g

\* From h to g, b is free and n, the next header, knows; links says whether
\* n was also told where b is.
IsMarked(h, g, n, b, links) ==
    /\ HeapType(g) /\ Dom(g) = Dom(h) /\ SameLists(h, g)
    /\ \A a \in Dom(h) :
          /\ g.mem[a].size = h.mem[a].size
          /\ g.mem[a].is_free = (IF a = b THEN TRUE ELSE h.mem[a].is_free)
          /\ g.mem[a].prev_is_free = (IF a = n THEN TRUE ELSE h.mem[a].prev_is_free)
          /\ g.mem[a].prev_phys_block = (IF links /\ a = n THEN b ELSE h.mem[a].prev_phys_block)
          /\ g.mem[a].next_free = h.mem[a].next_free /\ g.mem[a].prev_free = h.mem[a].prev_free

\* The two writes of block_mark_as_free behind block_link_next
BothFree(h, n, b) == [h EXCEPT !.mem[n].prev_is_free = TRUE, !.mem[b].is_free = TRUE]

\* The headers after both flags of a freed block are set.
LEMMA BothFreeIs ==
    ASSUME NEW h, HeapType(h), NEW b \in Dom(h), NEW n \in Dom(h), n # b
    PROVE  IsMarked(h, BothFree(h, n, b), n, b, FALSE)
<1> DEFINE m == [a \in Dom(h) |-> IF a = n THEN [h.mem[a] EXCEPT !.prev_is_free = TRUE]
                                  ELSE IF a = b THEN [h.mem[a] EXCEPT !.is_free = TRUE] ELSE h.mem[a]]
           g == BothFree(h, n, b)
<1>1. g = WithMem(h, m)
  <2>1. [h EXCEPT !.mem[n].prev_is_free = TRUE, !.mem[b].is_free = TRUE] = [h EXCEPT !.mem = m]
    BY DEF HeapType, Heaps, Dom
  <2> HIDE DEF m
  <2>2. [h EXCEPT !.mem = m] = WithMem(h, m)
    BY DEF HeapType, Heaps, WithMem
  <2> QED
    BY <2>1, <2>2 DEF BothFree
<1>2. ASSUME NEW a \in Dom(h)
      PROVE  /\ m[a] \in HeaderT
             /\ m[a].size = h.mem[a].size
             /\ m[a].is_free = (IF a = b THEN TRUE ELSE h.mem[a].is_free)
             /\ m[a].prev_is_free = (IF a = n THEN TRUE ELSE h.mem[a].prev_is_free)
             /\ m[a].prev_phys_block = h.mem[a].prev_phys_block
             /\ m[a].next_free = h.mem[a].next_free /\ m[a].prev_free = h.mem[a].prev_free
  <2>1. h.mem[a] \in HeaderT
    BY HeaderTypes
  <2>2. m[a] = IF a = n THEN [h.mem[a] EXCEPT !.prev_is_free = TRUE]
               ELSE IF a = b THEN [h.mem[a] EXCEPT !.is_free = TRUE] ELSE h.mem[a]
    OBVIOUS
  <2> HIDE DEF m
  <2> QED
    BY <2>1, <2>2 DEF HeaderT
<1>3. m \in [Dom(h) -> HeaderT] /\ Dom(h) \in SUBSET (Nat \ {0})
  BY <1>2 DEF HeapType
<1> HIDE DEF m, g
<1>4. HeapType(g) /\ Dom(g) = Dom(h) /\ g.mem = m /\ SameLists(h, g)
  BY <1>1, <1>3, WithMemIs
<1> QED
  BY <1>2, <1>4 DEF g, IsMarked

\* block_mark_as_free sets them, and links the neighbour back.
LEMMA MarkFreeIs ==
    ASSUME NEW h, HeapType(h), NEW b \in Dom(h), NEW n \in Dom(h), block_next(h, b) = n, n # b
    PROVE  IsMarked(h, block_mark_as_free(h, b), n, b, TRUE)
<1> DEFINE k == block_link_next(h, b)
           g == BothFree(k, n, b)
<1>1. /\ HeapType(k) /\ Dom(k) = Dom(h) /\ SameLists(h, k)
      /\ \A a \in Dom(h) :
            /\ k.mem[a].size = h.mem[a].size /\ k.mem[a].is_free = h.mem[a].is_free
            /\ k.mem[a].prev_is_free = h.mem[a].prev_is_free
            /\ k.mem[a].prev_phys_block = (IF a = n THEN b ELSE h.mem[a].prev_phys_block)
            /\ k.mem[a].next_free = h.mem[a].next_free /\ k.mem[a].prev_free = h.mem[a].prev_free
  BY LinkNextIs
<1>2. block_mark_as_free(h, b) = g
  BY Zenon DEF block_mark_as_free, BothFree
<1> HIDE DEF k
<1>3. IsMarked(k, g, n, b, FALSE)
  <2>1. b \in Dom(k) /\ n \in Dom(k)
    BY <1>1
  <2> QED
    BY <1>1, <2>1, BothFreeIs
<1> HIDE DEF g
<1>4. SameLists(h, g) /\ HeapType(g) /\ Dom(g) = Dom(h)
  BY <1>1, <1>3 DEF SameLists, IsMarked
<1>5. ASSUME NEW a \in Dom(h)
      PROVE  /\ g.mem[a].size = h.mem[a].size
             /\ g.mem[a].is_free = (IF a = b THEN TRUE ELSE h.mem[a].is_free)
             /\ g.mem[a].prev_is_free = (IF a = n THEN TRUE ELSE h.mem[a].prev_is_free)
             /\ g.mem[a].prev_phys_block = (IF a = n THEN b ELSE h.mem[a].prev_phys_block)
             /\ g.mem[a].next_free = h.mem[a].next_free /\ g.mem[a].prev_free = h.mem[a].prev_free
  <2>1. k.mem[a].is_free = h.mem[a].is_free /\ k.mem[a].prev_is_free = h.mem[a].prev_is_free
    BY <1>1
  <2>2. /\ g.mem[a].is_free = (IF a = b THEN TRUE ELSE k.mem[a].is_free)
        /\ g.mem[a].prev_is_free = (IF a = n THEN TRUE ELSE k.mem[a].prev_is_free)
    BY <1>1, <1>3 DEF IsMarked
  <2>3. /\ g.mem[a].size = h.mem[a].size
        /\ g.mem[a].prev_phys_block = (IF a = n THEN b ELSE h.mem[a].prev_phys_block)
        /\ g.mem[a].next_free = h.mem[a].next_free /\ g.mem[a].prev_free = h.mem[a].prev_free
    <3>1. /\ k.mem[a].size = h.mem[a].size
          /\ k.mem[a].prev_phys_block = (IF a = n THEN b ELSE h.mem[a].prev_phys_block)
          /\ k.mem[a].next_free = h.mem[a].next_free /\ k.mem[a].prev_free = h.mem[a].prev_free
      BY <1>1
    <3>2. a \in Dom(k)
      BY <1>1
    <3>3. /\ g.mem[a].size = k.mem[a].size
          /\ g.mem[a].prev_phys_block = k.mem[a].prev_phys_block
          /\ g.mem[a].next_free = k.mem[a].next_free /\ g.mem[a].prev_free = k.mem[a].prev_free
      BY <1>3, <3>2, Zenon DEF IsMarked
    <3> QED
      BY <3>1, <3>3, Zenon
  <2> QED
    BY <2>1, <2>2, <2>3
<1> QED
  BY <1>2, <1>4, <1>5 DEF IsMarked

\* block_mark_as_free and block_mark_as_used
LEMMA MarkAsFree ==
    ASSUME NEW h, NEW T, Tags(h, T), NEW b \in Dom(h) \ {T}
    PROVE  LET g == block_mark_as_free(h, b)
           IN  IsFlagged(h, g, b, 1) /\ IndexOnly(h, g, Dom(h))
<1> DEFINE n == block_next(h, b)
           g == block_mark_as_free(h, b)
<1>1. HeapType(h) /\ b \in Dom(h) /\ n \in Dom(h) /\ n # b
  BY TagsType, NextIs
<1>2. IsMarked(h, g, n, b, TRUE)
  BY <1>1, MarkFreeIs
<1> HIDE DEF g
<1>3. g.mem[n].prev_phys_block = b
  BY <1>1, <1>2 DEF IsMarked
<1>4. IsFlagged(h, g, b, 1)
  BY <1>2, <1>3 DEF IsFlagged, IsMarked
<1>5. IndexOnly(h, g, Dom(h))
  BY <1>2 DEF IndexOnly, SameLists, IsMarked
<1> QED
  BY <1>4, <1>5 DEF g

\* From h to g, b is used and n, the next header, knows.
IsTaken(h, g, n, b) ==
    /\ HeapType(g) /\ Dom(g) = Dom(h) /\ SameLists(h, g)
    /\ \A a \in Dom(h) :
          /\ g.mem[a].size = h.mem[a].size
          /\ g.mem[a].is_free = (IF a = b THEN FALSE ELSE h.mem[a].is_free)
          /\ g.mem[a].prev_is_free = (IF a = n THEN FALSE ELSE h.mem[a].prev_is_free)
          /\ a # n => g.mem[a].prev_phys_block = h.mem[a].prev_phys_block
          /\ a # b => g.mem[a].next_free = h.mem[a].next_free /\ g.mem[a].prev_free = h.mem[a].prev_free

\* block_mark_as_used, n the next header and k NULL
TakenNext(h, n, k) == [h EXCEPT !.mem[n].prev_is_free = FALSE, !.mem[n].prev_phys_block = k]
TakenSelf(h, b, k) == [h EXCEPT !.mem[b].is_free = FALSE, !.mem[b].next_free = k, !.mem[b].prev_free = k]

\* block_mark_as_used: the neighbour's header,
LEMMA TakenNextIs ==
    ASSUME NEW h, HeapType(h), NEW n \in Dom(h), NEW k \in Int
    PROVE  IsTaken(h, TakenNext(h, n, k), n, 0)
<1> DEFINE m == [a \in Dom(h) |->
                   IF a = n THEN [h.mem[a] EXCEPT !.prev_is_free = FALSE, !.prev_phys_block = k] ELSE h.mem[a]]
           g == TakenNext(h, n, k)
<1>1. g = WithMem(h, m)
  <2>1. [h EXCEPT !.mem[n].prev_is_free = FALSE, !.mem[n].prev_phys_block = k] = [h EXCEPT !.mem = m]
    BY DEF HeapType, Heaps, Dom
  <2> HIDE DEF m
  <2>2. [h EXCEPT !.mem = m] = WithMem(h, m)
    BY DEF HeapType, Heaps, WithMem
  <2> QED
    BY <2>1, <2>2 DEF TakenNext
<1>2. ASSUME NEW a \in Dom(h)
      PROVE  /\ m[a] \in HeaderT /\ a # 0
             /\ m[a].size = h.mem[a].size /\ m[a].is_free = h.mem[a].is_free
             /\ m[a].prev_is_free = (IF a = n THEN FALSE ELSE h.mem[a].prev_is_free)
             /\ a # n => m[a].prev_phys_block = h.mem[a].prev_phys_block
             /\ m[a].next_free = h.mem[a].next_free /\ m[a].prev_free = h.mem[a].prev_free
  <2>1. h.mem[a] \in HeaderT /\ a # 0
    BY HeaderTypes
  <2>2. m[a] = IF a = n THEN [h.mem[a] EXCEPT !.prev_is_free = FALSE, !.prev_phys_block = k] ELSE h.mem[a]
    OBVIOUS
  <2> HIDE DEF m
  <2> QED
    BY <2>1, <2>2 DEF HeaderT
<1>3. m \in [Dom(h) -> HeaderT] /\ Dom(h) \in SUBSET (Nat \ {0})
  BY <1>2 DEF HeapType
<1> HIDE DEF m, g
<1>4. HeapType(g) /\ Dom(g) = Dom(h) /\ g.mem = m /\ SameLists(h, g)
  BY <1>1, <1>3, WithMemIs
<1> QED
  BY <1>2, <1>4 DEF g, IsTaken

\* the block's own,
LEMMA TakenSelfIs ==
    ASSUME NEW h, HeapType(h), NEW b \in Dom(h), NEW k \in Int
    PROVE  IsTaken(h, TakenSelf(h, b, k), 0, b)
<1> DEFINE m == [a \in Dom(h) |->
                   IF a = b THEN [h.mem[a] EXCEPT !.is_free = FALSE, !.next_free = k, !.prev_free = k] ELSE h.mem[a]]
           g == TakenSelf(h, b, k)
<1>1. g = WithMem(h, m)
  <2>1. [h EXCEPT !.mem[b].is_free = FALSE, !.mem[b].next_free = k, !.mem[b].prev_free = k] = [h EXCEPT !.mem = m]
    BY DEF HeapType, Heaps, Dom
  <2> HIDE DEF m
  <2>2. [h EXCEPT !.mem = m] = WithMem(h, m)
    BY DEF HeapType, Heaps, WithMem
  <2> QED
    BY <2>1, <2>2 DEF TakenSelf
<1>2. ASSUME NEW a \in Dom(h)
      PROVE  /\ m[a] \in HeaderT /\ a # 0
             /\ m[a].size = h.mem[a].size /\ m[a].is_free = (IF a = b THEN FALSE ELSE h.mem[a].is_free)
             /\ m[a].prev_is_free = h.mem[a].prev_is_free
             /\ m[a].prev_phys_block = h.mem[a].prev_phys_block
             /\ a # b => m[a].next_free = h.mem[a].next_free /\ m[a].prev_free = h.mem[a].prev_free
  <2>1. h.mem[a] \in HeaderT /\ a # 0
    BY HeaderTypes
  <2>2. m[a] = IF a = b THEN [h.mem[a] EXCEPT !.is_free = FALSE, !.next_free = k, !.prev_free = k] ELSE h.mem[a]
    OBVIOUS
  <2> HIDE DEF m
  <2> QED
    BY <2>1, <2>2 DEF HeaderT
<1>3. m \in [Dom(h) -> HeaderT] /\ Dom(h) \in SUBSET (Nat \ {0})
  BY <1>2 DEF HeapType
<1> HIDE DEF m, g
<1>4. HeapType(g) /\ Dom(g) = Dom(h) /\ g.mem = m /\ SameLists(h, g)
  BY <1>1, <1>3, WithMemIs
<1> QED
  BY <1>2, <1>4 DEF g, IsTaken

\* and the two together.
LEMMA MarkAsUsed ==
    ASSUME NEW h, NEW T, Tags(h, T), NEW b \in Dom(h) \ {T}
    PROVE  LET g == block_mark_as_used(h, b)
           IN  IsFlagged(h, g, b, 0) /\ IndexOnly(h, g, Dom(h) \ {b})
<1> DEFINE n == block_next(h, b)
           e == TakenNext(h, n, NULL)
           g == TakenSelf(e, b, NULL)
<1>1. HeapType(h) /\ b \in Dom(h) /\ n \in Dom(h) /\ n # b /\ NULL \in Int /\ b # 0 /\ n # 0
  BY TagsType, NextIs DEF NULL, HeapType
<1>2. block_mark_as_used(h, b) = g
  BY Zenon DEF block_mark_as_used, TakenNext, TakenSelf
<1> HIDE DEF n
<1>3. IsTaken(h, e, n, 0)
  BY <1>1, TakenNextIs
<1> HIDE DEF e
<1>4. HeapType(e) /\ Dom(e) = Dom(h)
  BY <1>3 DEF IsTaken
<1>5. IsTaken(e, g, 0, b)
  BY <1>1, <1>4, TakenSelfIs
<1> HIDE DEF g
<1>6. ASSUME NEW a \in Dom(h)
      PROVE  /\ g.mem[a].size = h.mem[a].size
             /\ g.mem[a].is_free = (IF a = b THEN FALSE ELSE h.mem[a].is_free)
             /\ g.mem[a].prev_is_free = (IF a = n THEN FALSE ELSE h.mem[a].prev_is_free)
             /\ a # n => g.mem[a].prev_phys_block = h.mem[a].prev_phys_block
             /\ a # b => g.mem[a].next_free = h.mem[a].next_free /\ g.mem[a].prev_free = h.mem[a].prev_free
  <2>1. a # 0
    BY <1>1 DEF HeapType
  <2>2. /\ e.mem[a].size = h.mem[a].size /\ e.mem[a].is_free = h.mem[a].is_free
        /\ e.mem[a].prev_is_free = (IF a = n THEN FALSE ELSE h.mem[a].prev_is_free)
        /\ a # n => e.mem[a].prev_phys_block = h.mem[a].prev_phys_block
        /\ e.mem[a].next_free = h.mem[a].next_free /\ e.mem[a].prev_free = h.mem[a].prev_free
    BY <1>3, <2>1 DEF IsTaken
  <2>3. /\ g.mem[a].size = e.mem[a].size /\ g.mem[a].is_free = (IF a = b THEN FALSE ELSE e.mem[a].is_free)
        /\ g.mem[a].prev_is_free = e.mem[a].prev_is_free
        /\ g.mem[a].prev_phys_block = e.mem[a].prev_phys_block
        /\ a # b => g.mem[a].next_free = e.mem[a].next_free /\ g.mem[a].prev_free = e.mem[a].prev_free
    BY <1>4, <1>5, <2>1 DEF IsTaken
  <2> QED
    BY <2>2, <2>3
<1>7. HeapType(g) /\ Dom(g) = Dom(h) /\ SameLists(h, g)
  BY <1>3, <1>5 DEF IsTaken, SameLists
<1>8. IsFlagged(h, g, b, 0)
  <2> DEFINE z == 0
  <2>1. (z = 1) = FALSE
    OBVIOUS
  <2> HIDE DEF z
  <2>2. IsFlagged(h, g, b, z)
    BY <1>6, <1>7, <2>1 DEF IsFlagged, n
  <2> QED
    BY <2>2 DEF z
<1>9. IndexOnly(h, g, Dom(h) \ {b})
  BY <1>6, <1>7 DEF IndexOnly, SameLists
<1> QED
  BY <1>2, <1>8, <1>9

\* block_absorb
LEMMA Absorb ==
    ASSUME NEW h, NEW T, Tags(h, T), NEW p \in Dom(h) \ {T}, NEW b \in Dom(h) \ {T}, block_next(h, p) = b
    PROVE  LET g == block_absorb(h, p, b)
           IN  IsAbsorbed(h, g, p, b) /\ IndexOnly(h, g, Dom(h) \ {p, b})
<1> DEFINE n == block_next(h, b)
           x == h.mem[p].size
           y == h.mem[b].size
           z == x + y + 8
           D == Dom(h) \ {b}
           m == [a \in D |-> IF a = p THEN [h.mem[p] EXCEPT !.size = z] ELSE h.mem[a]]
           k == WithMem(h, m)
           g == block_link_next(k, p)
<1>1. /\ HeapType(h) /\ p \in Nat /\ b \in Nat /\ x \in Nat /\ y \in Nat /\ z \in Nat /\ p # b
      /\ b = p + 8 + x /\ n = b + 8 + y /\ n \in Dom(h) /\ n # b /\ n # p /\ D \in SUBSET (Nat \ {0})
  BY TagsType, NextIs DEF HeapType
<1>2. block_absorb(h, p, b) = g
  <2>1. m = [a \in DOMAIN h.mem \ {b} |->
                IF a = p THEN [h.mem[p] EXCEPT !.size = @ + h.mem[b].size + block_header_overhead]
                ELSE h.mem[a]]
    BY Zenon DEF Dom, block_header_overhead, Word
  <2>2. block_absorb(h, p, b) = block_link_next([h EXCEPT !.mem = m], p)
    BY Zenon, <2>1 DEF block_absorb
  <2> HIDE DEF m
  <2>3. [h EXCEPT !.mem = m] = WithMem(h, m)
    BY <1>1 DEF HeapType, Heaps, WithMem
  <2> QED
    BY <2>2, <2>3
<1> HIDE DEF n, x, y, z
<1>3. ASSUME NEW a \in D
      PROVE  /\ m[a] \in HeaderT
             /\ m[a].size = (IF a = p THEN z ELSE h.mem[a].size)
             /\ m[a].is_free = h.mem[a].is_free /\ m[a].prev_is_free = h.mem[a].prev_is_free
             /\ m[a].prev_phys_block = h.mem[a].prev_phys_block
             /\ m[a].next_free = h.mem[a].next_free /\ m[a].prev_free = h.mem[a].prev_free
  <2>1. h.mem[a] \in HeaderT
    BY <1>1, HeaderTypes
  <2>2. m[a] = IF a = p THEN [h.mem[a] EXCEPT !.size = z] ELSE h.mem[a]
    OBVIOUS
  <2> HIDE DEF m
  <2> QED
    BY <1>1, <2>1, <2>2 DEF HeaderT
<1>4. m \in [D -> HeaderT]
  BY <1>3
<1> HIDE DEF m
<1>5. HeapType(k) /\ Dom(k) = D /\ k.mem = m /\ SameLists(h, k)
  BY <1>1, <1>4, WithMemIs
<1> HIDE DEF k
<1>6. p \in Dom(k) /\ n \in Dom(k) /\ block_next(k, p) = n
  <2>1. p \in Dom(k) /\ n \in Dom(k) /\ k.mem[p].size = z
    BY <1>1, <1>3, <1>5
  <2>2. block_next(k, p) = p + 8 + z
    BY <1>5, <2>1, HeaderTypes
  <2> QED
    BY <1>1, <2>1, <2>2 DEF z
<1>7. /\ HeapType(g) /\ Dom(g) = Dom(k) /\ SameLists(k, g)
      /\ \A a \in Dom(k) :
            /\ g.mem[a].size = k.mem[a].size /\ g.mem[a].is_free = k.mem[a].is_free
            /\ g.mem[a].prev_is_free = k.mem[a].prev_is_free
            /\ g.mem[a].prev_phys_block = (IF a = n THEN p ELSE k.mem[a].prev_phys_block)
            /\ g.mem[a].next_free = k.mem[a].next_free /\ g.mem[a].prev_free = k.mem[a].prev_free
  BY <1>5, <1>6, LinkNextIs
<1> HIDE DEF g
<1>8. ASSUME NEW a \in Dom(g)
      PROVE  /\ a \in D
             /\ g.mem[a].size = (IF a = p THEN z ELSE h.mem[a].size)
             /\ g.mem[a].is_free = h.mem[a].is_free /\ g.mem[a].prev_is_free = h.mem[a].prev_is_free
             /\ g.mem[a].prev_phys_block = (IF a = n THEN p ELSE h.mem[a].prev_phys_block)
             /\ g.mem[a].next_free = h.mem[a].next_free /\ g.mem[a].prev_free = h.mem[a].prev_free
  BY <1>3, <1>5, <1>7
<1>9. IsAbsorbed(h, g, p, b)
  BY <1>5, <1>7, <1>8 DEF IsAbsorbed, z, x, y, n
<1>10. IndexOnly(h, g, Dom(h) \ {p, b})
  BY <1>5, <1>7, <1>8 DEF IndexOnly, SameLists
<1> QED
  BY <1>2, <1>9, <1>10

\* A header whose flag says that the block before it is free
PrevFree(h, r) == [h EXCEPT !.mem[r].prev_is_free = TRUE]

\* A header with its second flag set.
LEMMA PrevFreeIs ==
    ASSUME NEW h, HeapType(h), NEW r \in Dom(h)
    PROVE  IsMarked(h, PrevFree(h, r), r, 0, FALSE)
<1> DEFINE m == [a \in Dom(h) |-> IF a = r THEN [h.mem[a] EXCEPT !.prev_is_free = TRUE] ELSE h.mem[a]]
           g == PrevFree(h, r)
<1>1. g = WithMem(h, m)
  <2>1. [h EXCEPT !.mem[r].prev_is_free = TRUE] = [h EXCEPT !.mem = m]
    BY DEF HeapType, Heaps, Dom
  <2> HIDE DEF m
  <2>2. [h EXCEPT !.mem = m] = WithMem(h, m)
    BY DEF HeapType, Heaps, WithMem
  <2> QED
    BY <2>1, <2>2 DEF PrevFree
<1>2. ASSUME NEW a \in Dom(h)
      PROVE  /\ m[a] \in HeaderT /\ a # 0
             /\ m[a].size = h.mem[a].size /\ m[a].is_free = h.mem[a].is_free
             /\ m[a].prev_is_free = (IF a = r THEN TRUE ELSE h.mem[a].prev_is_free)
             /\ m[a].prev_phys_block = h.mem[a].prev_phys_block
             /\ m[a].next_free = h.mem[a].next_free /\ m[a].prev_free = h.mem[a].prev_free
  <2>1. h.mem[a] \in HeaderT /\ a # 0
    BY HeaderTypes
  <2>2. m[a] = IF a = r THEN [h.mem[a] EXCEPT !.prev_is_free = TRUE] ELSE h.mem[a]
    OBVIOUS
  <2> HIDE DEF m
  <2> QED
    BY <2>1, <2>2 DEF HeaderT
<1>3. m \in [Dom(h) -> HeaderT] /\ Dom(h) \in SUBSET (Nat \ {0})
  BY <1>2 DEF HeapType
<1> HIDE DEF m, g
<1>4. HeapType(g) /\ Dom(g) = Dom(h) /\ g.mem = m /\ SameLists(h, g)
  BY <1>1, <1>3, WithMemIs
<1> QED
  BY <1>2, <1>4 DEF g, IsMarked

\* block_split: n is the next header, and the remainder is not linked to b yet.
IsCut(h, g, b, size, rest) ==
    /\ HeapType(g) /\ Dom(g) = Dom(h) \cup {rest} /\ SameLists(h, g)
    /\ \A a \in Dom(g) :
          /\ g.mem[a].size = (IF a = b THEN size ELSE IF a = rest THEN h.mem[b].size - (size + 8) ELSE h.mem[a].size)
          /\ g.mem[a].is_free = (IF a = rest THEN TRUE ELSE h.mem[a].is_free)
          /\ a # rest => g.mem[a].prev_is_free = (IF a = block_next(h, b) THEN TRUE ELSE h.mem[a].prev_is_free)
          /\ a # rest => g.mem[a].prev_phys_block =
                            (IF a = block_next(h, b) THEN rest ELSE h.mem[a].prev_phys_block)
          /\ a # rest => g.mem[a].next_free = h.mem[a].next_free /\ g.mem[a].prev_free = h.mem[a].prev_free

\* What block_split makes of the headers.
LEMMA CutIs ==
    ASSUME NEW h, NEW T, Tags(h, T), NEW b \in Dom(h) \ {T}, NEW size \in Nat, size + 32 <= h.mem[b].size
    PROVE  LET rest == b + 8 + size
           IN  /\ IsCut(h, block_split(h, b, size), b, size, rest)
               /\ Remaining(b, size) = rest /\ rest \notin Dom(h) /\ rest \in Nat \ {0}
<1> DEFINE rest == b + 8 + size
           n == block_next(h, b)
           x == h.mem[b].size
           z == x - (size + 8)
           D == Dom(h) \cup {rest}
           header == [size |-> z, is_free |-> FALSE, prev_is_free |-> FALSE,
                      prev_phys_block |-> NULL, next_free |-> NULL, prev_free |-> NULL]
           m == [a \in D |-> CASE a = rest -> header
                              [] a = b -> [h.mem[b] EXCEPT !.size = size]
                              [] OTHER -> h.mem[a]]
           k == WithMem(h, m)
           g == block_mark_as_free(k, rest)
<1>1. /\ HeapType(h) /\ b \in Nat /\ x \in Nat /\ x >= size + 32 /\ n = b + 8 + x /\ n \in Dom(h) /\ n # b
      /\ \A a \in Dom(h) : a <= b \/ n <= a
      /\ \A a \in Dom(h) : a \in Nat
  BY TagsType, NextIs
<1>2. /\ z \in Nat /\ rest \in Nat \ {0} /\ b < rest /\ rest < n /\ rest + 8 + z = n /\ Remaining(b, size) = rest
  BY <1>1 DEF Remaining, block_to_ptr, block_start_offset, block_header_overhead, Word
<1>3. rest \notin Dom(h)
  <2>1. ASSUME rest \in Dom(h) PROVE FALSE
    <3>1. rest <= b \/ n <= rest
      BY <1>1, <2>1
    <3> QED
      BY <1>1, <1>2, <3>1
  <2> QED
    BY <2>1
<1>4. block_split(h, b, size) = g
  <2> DEFINE r == Remaining(b, size)
  <2>1. block_split(h, b, size) =
            block_mark_as_free([h EXCEPT !.mem = [a \in DOMAIN h.mem \cup {r} |->
                                                    CASE a = r -> header
                                                      [] a = b -> [h.mem[b] EXCEPT !.size = size]
                                                      [] OTHER -> h.mem[a]]], r)
    BY Zenon DEF block_split, block_header_overhead, Word
  <2>2. block_split(h, b, size) = block_mark_as_free([h EXCEPT !.mem = m], Remaining(b, size))
    <3>1. r = rest
      BY <1>2
    <3> DEFINE F == [a \in DOMAIN h.mem \cup {r} |->
                       CASE a = r -> header
                         [] a = b -> [h.mem[b] EXCEPT !.size = size]
                         [] OTHER -> h.mem[a]]
    <3>2. block_split(h, b, size) = block_mark_as_free([h EXCEPT !.mem = F], r)
      BY <2>1
    <3> HIDE DEF header, r, rest
    <3>3. F = m
      BY <3>1 DEF Dom
    <3> HIDE DEF F, m
    <3>4. block_split(h, b, size) = block_mark_as_free([h EXCEPT !.mem = m], r)
      BY <3>2, <3>3
    <3> QED
      BY <3>4 DEF r
  <2> HIDE DEF m
  <2>3. [h EXCEPT !.mem = m] = WithMem(h, m)
    BY <1>1 DEF HeapType, Heaps, WithMem
  <2> QED
    BY <1>2, <2>2, <2>3
<1>5. header \in HeaderT /\ header.size = z /\ header.is_free = FALSE
  <2>1. NULL \in Int
    BY DEF NULL
  <2> HIDE DEF z
  <2> QED
    BY <1>2, <2>1 DEF HeaderT
<1> HIDE DEF header, rest, n, x, z
<1>6. ASSUME NEW a \in D
      PROVE  /\ m[a] \in HeaderT
             /\ m[a].size = (IF a = b THEN size ELSE IF a = rest THEN z ELSE h.mem[a].size)
             /\ a = rest => m[a].is_free = FALSE
             /\ a # rest => /\ m[a].is_free = h.mem[a].is_free /\ m[a].prev_is_free = h.mem[a].prev_is_free
                            /\ m[a].prev_phys_block = h.mem[a].prev_phys_block
                            /\ m[a].next_free = h.mem[a].next_free /\ m[a].prev_free = h.mem[a].prev_free
  <2>1. CASE a = rest
    <3>1. m[a] = header /\ a # b
      BY <1>3, <2>1
    <3> QED
      BY <1>5, <2>1, <3>1
  <2>2. CASE a # rest /\ a = b
    <3>1. m[a] = [h.mem[a] EXCEPT !.size = size] /\ h.mem[a] \in HeaderT
      BY <1>1, <2>2, HeaderTypes
    <3> HIDE DEF m
    <3> QED
      BY <2>2, <3>1 DEF HeaderT
  <2>3. CASE a # rest /\ a # b
    <3>1. m[a] = h.mem[a] /\ h.mem[a] \in HeaderT
      BY <1>1, <2>3, HeaderTypes
    <3> HIDE DEF m
    <3> QED
      BY <2>3, <3>1
  <2> QED
    BY <2>1, <2>2, <2>3
<1>7. m \in [D -> HeaderT] /\ D \in SUBSET (Nat \ {0})
  BY <1>1, <1>2, <1>6 DEF HeapType
<1> HIDE DEF m
<1>8. HeapType(k) /\ Dom(k) = D /\ k.mem = m /\ SameLists(h, k)
  BY <1>1, <1>7, WithMemIs
<1> HIDE DEF k
<1>9. rest \in Dom(k) /\ n \in Dom(k) /\ block_next(k, rest) = n /\ n # rest
  <2>1. rest \in Dom(k) /\ n \in Dom(k) /\ k.mem[rest].size = z /\ rest # n
    BY <1>1, <1>2, <1>3, <1>6, <1>8
  <2>2. block_next(k, rest) = rest + 8 + z
    BY <1>8, <2>1, HeaderTypes
  <2> QED
    BY <1>2, <2>1, <2>2
<1>10. IsMarked(k, g, n, rest, TRUE)
  BY <1>8, <1>9, MarkFreeIs
<1> HIDE DEF g
<1>11. ASSUME NEW a \in D
       PROVE  /\ g.mem[a].size = (IF a = b THEN size ELSE IF a = rest THEN z ELSE h.mem[a].size)
              /\ g.mem[a].is_free = (IF a = rest THEN TRUE ELSE h.mem[a].is_free)
              /\ a # rest => g.mem[a].prev_is_free = (IF a = n THEN TRUE ELSE h.mem[a].prev_is_free)
              /\ a # rest => g.mem[a].prev_phys_block = (IF a = n THEN rest ELSE h.mem[a].prev_phys_block)
              /\ a # rest => g.mem[a].next_free = h.mem[a].next_free /\ g.mem[a].prev_free = h.mem[a].prev_free
  <2>1. /\ g.mem[a].size = m[a].size
        /\ g.mem[a].is_free = (IF a = rest THEN TRUE ELSE m[a].is_free)
        /\ g.mem[a].prev_is_free = (IF a = n THEN TRUE ELSE m[a].prev_is_free)
        /\ g.mem[a].prev_phys_block = (IF a = n THEN rest ELSE m[a].prev_phys_block)
        /\ g.mem[a].next_free = m[a].next_free /\ g.mem[a].prev_free = m[a].prev_free
    BY <1>8, <1>10 DEF IsMarked
  <2> QED
    BY <1>6, <2>1
<1>12. HeapType(g) /\ Dom(g) = Dom(h) \cup {rest} /\ SameLists(h, g)
  BY <1>8, <1>10 DEF IsMarked, SameLists
<1>13. IsCut(h, g, b, size, rest)
  BY <1>11, <1>12 DEF IsCut, n, x, z
<1> QED
  BY <1>2, <1>3, <1>4, <1>13 DEF rest

\* What controller_block_trim_free and controller_block_trim_free_leading make
\* of it before they put one of the parts into its list
TrimmedFree(h, b, size) ==
    PrevFree(block_link_next(block_split(h, b, size), b), Remaining(b, size))
TrimmedLeading(h, b, size) ==
    block_link_next(PrevFree(block_split(h, b, size), Remaining(b, size)), b)

\* A split leaves the free links of other blocks alone.
LEMMA CutLinks ==
    ASSUME NEW h, NEW T, Tags(h, T), NEW b \in Dom(h) \ {T}, NEW size \in Nat, size + 32 <= h.mem[b].size
    PROVE  LET rest == b + 8 + size
               g == TrimmedFree(h, b, size)
               l == TrimmedLeading(h, b, size)
           IN  /\ IsSplit(h, g, b, size, rest) /\ IndexOnly(h, g, Dom(h) \ {b})
               /\ IsSplit(h, l, b, size, rest) /\ IndexOnly(h, l, Dom(h) \ {b})
<1> DEFINE rest == b + 8 + size
           n == block_next(h, b)
           z == h.mem[b].size - (size + 8)
           D == Dom(h) \cup {rest}
           k == block_split(h, b, size)
<1>1. /\ IsCut(h, k, b, size, rest) /\ Remaining(b, size) = rest /\ rest \notin Dom(h) /\ rest \in Nat \ {0}
  BY CutIs
<1>2. /\ b \in Dom(h) /\ b \in Nat /\ n \in Dom(h) /\ \A a \in Dom(h) : a # 0
  BY TagsType, NextIs DEF HeapType
<1> HIDE DEF k, n, z
<1>3. /\ HeapType(k) /\ Dom(k) = D /\ SameLists(h, k)
      /\ \A a \in D :
            /\ k.mem[a].size = (IF a = b THEN size ELSE IF a = rest THEN z ELSE h.mem[a].size)
            /\ k.mem[a].is_free = (IF a = rest THEN TRUE ELSE h.mem[a].is_free)
            /\ a # rest => k.mem[a].prev_is_free = (IF a = n THEN TRUE ELSE h.mem[a].prev_is_free)
            /\ a # rest => k.mem[a].prev_phys_block = (IF a = n THEN rest ELSE h.mem[a].prev_phys_block)
            /\ a # rest => k.mem[a].next_free = h.mem[a].next_free /\ k.mem[a].prev_free = h.mem[a].prev_free
  BY <1>1 DEF IsCut, n, z
<1>4. rest \in Dom(k) /\ b \in Dom(k) /\ block_next(k, b) = rest
  <2>1. b \in Dom(k) /\ k.mem[b].size = size
    BY <1>1, <1>2, <1>3
  <2>2. block_next(k, b) = b + 8 + size
    BY <1>3, <2>1, HeaderTypes
  <2> QED
    BY <1>3, <2>1, <2>2
<1>5. ASSUME NEW g, HeapType(g), Dom(g) = D, SameLists(k, g),
             \A a \in D : /\ g.mem[a].size = k.mem[a].size /\ g.mem[a].is_free = k.mem[a].is_free
                          /\ g.mem[a].prev_is_free = (IF a = rest THEN TRUE ELSE k.mem[a].prev_is_free)
                          /\ g.mem[a].prev_phys_block = (IF a = rest THEN b ELSE k.mem[a].prev_phys_block)
                          /\ g.mem[a].next_free = k.mem[a].next_free /\ g.mem[a].prev_free = k.mem[a].prev_free
      PROVE  IsSplit(h, g, b, size, rest) /\ IndexOnly(h, g, Dom(h) \ {b})
  <2>1. ASSUME NEW a \in D
        PROVE  /\ g.mem[a].size = (IF a = b THEN size ELSE IF a = rest THEN z ELSE h.mem[a].size)
               /\ g.mem[a].is_free = (IF a = rest THEN TRUE ELSE h.mem[a].is_free)
               /\ g.mem[a].prev_is_free = (IF a = rest \/ a = n THEN TRUE ELSE h.mem[a].prev_is_free)
               /\ g.mem[a].prev_phys_block = (IF a = rest THEN b ELSE IF a = n THEN rest ELSE h.mem[a].prev_phys_block)
               /\ a # rest => g.mem[a].next_free = h.mem[a].next_free /\ g.mem[a].prev_free = h.mem[a].prev_free
    <3>1. /\ g.mem[a].size = k.mem[a].size /\ g.mem[a].is_free = k.mem[a].is_free
          /\ g.mem[a].prev_is_free = (IF a = rest THEN TRUE ELSE k.mem[a].prev_is_free)
          /\ g.mem[a].prev_phys_block = (IF a = rest THEN b ELSE k.mem[a].prev_phys_block)
          /\ g.mem[a].next_free = k.mem[a].next_free /\ g.mem[a].prev_free = k.mem[a].prev_free
      BY <1>5
    <3>2. /\ k.mem[a].size = (IF a = b THEN size ELSE IF a = rest THEN z ELSE h.mem[a].size)
          /\ k.mem[a].is_free = (IF a = rest THEN TRUE ELSE h.mem[a].is_free)
          /\ a # rest => k.mem[a].prev_is_free = (IF a = n THEN TRUE ELSE h.mem[a].prev_is_free)
          /\ a # rest => k.mem[a].prev_phys_block = (IF a = n THEN rest ELSE h.mem[a].prev_phys_block)
          /\ a # rest => k.mem[a].next_free = h.mem[a].next_free /\ k.mem[a].prev_free = h.mem[a].prev_free
      BY <1>3
    <3> HIDE DEF rest, D
    <3> QED
      BY <3>1, <3>2
  <2>2. IsSplit(h, g, b, size, rest)
    <3> HIDE DEF rest
    <3> QED
      BY <1>5, <2>1 DEF IsSplit, n, z
  <2>3. IndexOnly(h, g, Dom(h) \ {b})
    <3>1. SameLists(h, g)
      BY <1>3, <1>5 DEF SameLists
    <3> HIDE DEF rest
    <3>2. \A a \in Dom(h) \ {b} : a \in D /\ a # rest
      BY <1>1
    <3> QED
      BY <1>5, <2>1, <3>1, <3>2 DEF IndexOnly, SameLists
  <2> QED
    BY <2>2, <2>3
<1>6. ASSUME NEW e, HeapType(e), Dom(e) = D, e.mem[b].size = k.mem[b].size PROVE block_next(e, b) = rest
  <2>1. b \in Dom(e) /\ b \in Dom(k)
    BY <1>4, <1>6, <1>3
  <2>2. block_next(e, b) = b + 8 + e.mem[b].size /\ block_next(k, b) = b + 8 + k.mem[b].size
    BY <1>3, <1>6, <2>1, HeaderTypes
  <2> QED
    BY <1>4, <1>6, <2>2
<1> HIDE DEF rest
<1>7. IsSplit(h, TrimmedFree(h, b, size), b, size, rest) /\ IndexOnly(h, TrimmedFree(h, b, size), Dom(h) \ {b})
  <2> DEFINE e == block_link_next(k, b)
             g == PrevFree(e, rest)
  <2>1. /\ HeapType(e) /\ Dom(e) = Dom(k) /\ SameLists(k, e)
        /\ \A a \in Dom(k) :
              /\ e.mem[a].size = k.mem[a].size /\ e.mem[a].is_free = k.mem[a].is_free
              /\ e.mem[a].prev_is_free = k.mem[a].prev_is_free
              /\ e.mem[a].prev_phys_block = (IF a = rest THEN b ELSE k.mem[a].prev_phys_block)
              /\ e.mem[a].next_free = k.mem[a].next_free /\ e.mem[a].prev_free = k.mem[a].prev_free
    BY <1>3, <1>4, LinkNextIs
  <2>2. TrimmedFree(h, b, size) = g
    BY <1>1 DEF TrimmedFree, k
  <2> HIDE DEF e
  <2>3. IsMarked(e, g, rest, 0, FALSE)
    BY <1>4, <2>1, PrevFreeIs
  <2> HIDE DEF g
  <2>4. ASSUME NEW a \in D
        PROVE  /\ g.mem[a].size = k.mem[a].size /\ g.mem[a].is_free = k.mem[a].is_free
               /\ g.mem[a].prev_is_free = (IF a = rest THEN TRUE ELSE k.mem[a].prev_is_free)
               /\ g.mem[a].prev_phys_block = (IF a = rest THEN b ELSE k.mem[a].prev_phys_block)
               /\ g.mem[a].next_free = k.mem[a].next_free /\ g.mem[a].prev_free = k.mem[a].prev_free
    <3>1. a # 0 /\ a \in Dom(k) /\ a \in Dom(e)
      BY <1>1, <1>2, <1>3, <2>1
    <3>2. /\ g.mem[a].size = e.mem[a].size /\ g.mem[a].is_free = e.mem[a].is_free
          /\ g.mem[a].prev_is_free = (IF a = rest THEN TRUE ELSE e.mem[a].prev_is_free)
          /\ g.mem[a].prev_phys_block = e.mem[a].prev_phys_block
          /\ g.mem[a].next_free = e.mem[a].next_free /\ g.mem[a].prev_free = e.mem[a].prev_free
      BY <2>3, <3>1 DEF IsMarked
    <3> QED
      BY <2>1, <3>1, <3>2
  <2>5. HeapType(g) /\ Dom(g) = D /\ SameLists(k, g)
    BY <1>3, <2>1, <2>3 DEF IsMarked, SameLists
  <2> HIDE DEF D
  <2>6. IsSplit(h, g, b, size, rest) /\ IndexOnly(h, g, Dom(h) \ {b})
    BY <1>5, <2>4, <2>5
  <2> QED
    BY <2>2, <2>6
<1>8. IsSplit(h, TrimmedLeading(h, b, size), b, size, rest) /\ IndexOnly(h, TrimmedLeading(h, b, size), Dom(h) \ {b})
  <2> DEFINE e == PrevFree(k, rest)
             g == block_link_next(e, b)
  <2>1. IsMarked(k, e, rest, 0, FALSE)
    BY <1>3, <1>4, PrevFreeIs
  <2>2. TrimmedLeading(h, b, size) = g
    BY <1>1 DEF TrimmedLeading, k
  <2> HIDE DEF e
  <2>3. HeapType(e) /\ Dom(e) = D /\ SameLists(k, e) /\ b \in Dom(e) /\ rest \in Dom(e)
    BY <1>3, <1>4, <2>1 DEF IsMarked
  <2>4. block_next(e, b) = rest
    <3>1. e.mem[b].size = k.mem[b].size
      BY <1>4, <2>1 DEF IsMarked
    <3> HIDE DEF D
    <3> QED
      BY <1>6, <2>3, <3>1
  <2>5. /\ HeapType(g) /\ Dom(g) = Dom(e) /\ SameLists(e, g)
        /\ \A a \in Dom(e) :
              /\ g.mem[a].size = e.mem[a].size /\ g.mem[a].is_free = e.mem[a].is_free
              /\ g.mem[a].prev_is_free = e.mem[a].prev_is_free
              /\ g.mem[a].prev_phys_block = (IF a = rest THEN b ELSE e.mem[a].prev_phys_block)
              /\ g.mem[a].next_free = e.mem[a].next_free /\ g.mem[a].prev_free = e.mem[a].prev_free
    BY <2>3, <2>4, LinkNextIs
  <2> HIDE DEF g
  <2>6. ASSUME NEW a \in D
        PROVE  /\ g.mem[a].size = k.mem[a].size /\ g.mem[a].is_free = k.mem[a].is_free
               /\ g.mem[a].prev_is_free = (IF a = rest THEN TRUE ELSE k.mem[a].prev_is_free)
               /\ g.mem[a].prev_phys_block = (IF a = rest THEN b ELSE k.mem[a].prev_phys_block)
               /\ g.mem[a].next_free = k.mem[a].next_free /\ g.mem[a].prev_free = k.mem[a].prev_free
    <3>1. a # 0 /\ a \in Dom(k) /\ a \in Dom(e)
      BY <1>1, <1>2, <1>3, <2>3
    <3>2. /\ e.mem[a].size = k.mem[a].size /\ e.mem[a].is_free = k.mem[a].is_free
          /\ e.mem[a].prev_is_free = (IF a = rest THEN TRUE ELSE k.mem[a].prev_is_free)
          /\ e.mem[a].prev_phys_block = k.mem[a].prev_phys_block
          /\ e.mem[a].next_free = k.mem[a].next_free /\ e.mem[a].prev_free = k.mem[a].prev_free
      BY <2>1, <3>1 DEF IsMarked
    <3> QED
      BY <2>5, <3>1, <3>2
  <2>7. HeapType(g) /\ Dom(g) = D /\ SameLists(k, g)
    BY <2>3, <2>5 DEF SameLists
  <2> HIDE DEF D
  <2>8. IsSplit(h, g, b, size, rest) /\ IndexOnly(h, g, Dom(h) \ {b})
    BY <1>5, <2>6, <2>7
  <2> QED
    BY <2>2, <2>8
<1> QED
  BY <1>7, <1>8 DEF rest

-----------------------------------------------------------------------------
(* Finding a block                                                         *)

\* htfh_ffs is the least bit.
LEMMA FfsIs ==
    ASSUME NEW bits \in SUBSET Nat, bits # {}
    PROVE  htfh_ffs(bits) \in bits /\ \A j \in bits : htfh_ffs(bits) <= j
BY LeastNat DEF htfh_ffs

\* The first list at or behind the class of the search that holds a block, and
\* there is none only when all those lists are empty.
LEMMA SuitableIs ==
    ASSUME NEW h, HeapType(h), Bitmaps(h), NEW size \in Nat, size < block_size_max
    PROVE  LET c == SuitableClass(h, size)
               s == mapping_search(size)
           IN  \/ /\ c \in Classes /\ c # NoClass /\ h.blocks[c] # 0 /\ Before(s, c)
               \/ /\ c = NoClass
                  /\ size # 0 => \A d \in Classes : Before(s, d) => h.blocks[d] = 0
<1> DEFINE s == mapping_search(size)
           x == s[1]
           y == s[2]
           c == SuitableClass(h, size)
<1>1. x \in Nat /\ y \in SLs
  <2>1. Rounded(size) \in Nat /\ Rounded(size) < 2 ^ (SizeBits + 1) /\ s = mapping_insert(Rounded(size))
    BY RoundedIs
  <2>2. Rounded(size) <= Rounded(size)
    BY <2>1
  <2> HIDE DEF s
  <2> QED
    BY <2>1, <2>2, ClassMonotone
<1>2. FL_INDEX_COUNT \in Nat /\ SL_INDEX_COUNT \in Nat /\ FL_INDEX_COUNT >= 2
  BY Widths, Constants
<1> HIDE DEF s
<1>3. c = IF size = 0 \/ x >= FL_INDEX_COUNT THEN NoClass ELSE controller_search_suitable_block(h, x, y)
  BY DEF SuitableClass, s
<1>4. \A d \in Classes : d[1] \in FLs /\ d[2] \in SLs /\ d[1] \in Nat /\ d[2] \in Nat /\ d[1] < FL_INDEX_COUNT
  BY <1>2 DEF Classes, FLs, SLs
<1>5. CASE size = 0 \/ x >= FL_INDEX_COUNT
  <2>1. c = NoClass
    BY <1>3, <1>5
  <2>2. ASSUME size # 0, NEW d \in Classes, Before(s, d) PROVE FALSE
    <3>1. x <= d[1] /\ d[1] < FL_INDEX_COUNT /\ x >= FL_INDEX_COUNT /\ d[1] \in Nat
      BY <1>1, <1>4, <1>5, <2>2 DEF Before
    <3> QED
      BY <1>1, <1>2, <3>1
  <2> QED
    BY <2>1, <2>2 DEF s
<1>6. CASE ~(size = 0 \/ x >= FL_INDEX_COUNT)
  <2> DEFINE here == {j \in h.sl_bitmap[x] : j >= y}
             above == {i \in h.fl_bitmap : i >= x + 1}
             f == htfh_ffs(above)
             row == h.sl_bitmap[f]
  <2>1. x \in FLs /\ c = controller_search_suitable_block(h, x, y)
    BY <1>1, <1>2, <1>3, <1>6 DEF FLs
  <2>2. /\ h.sl_bitmap[x] \in SUBSET SLs /\ h.fl_bitmap \in SUBSET FLs
        /\ \A i \in FLs : h.sl_bitmap[i] \in SUBSET SLs
    BY <2>1 DEF HeapType, Heaps
  <2>3. /\ here \in SUBSET Nat /\ above \in SUBSET Nat /\ above \in SUBSET FLs /\ here \in SUBSET SLs
    BY <1>2, <2>2 DEF FLs, SLs
  <2>4. c = IF here # {} THEN <<x, htfh_ffs(here)>>
            ELSE IF above = {} \/ row = {} THEN NoClass ELSE <<f, htfh_ffs(row)>>
    BY <2>1 DEF controller_search_suitable_block
  <2>5. \A d \in Classes : d # NoClass
    BY <1>2 DEF Classes, FLs, SLs, NoClass, NULL
  <2>6. CASE here # {}
    <3> DEFINE j == htfh_ffs(here)
    <3>1. j \in here
      BY <2>3, <2>6, FfsIs
    <3>2. c = <<x, j>>
      BY <2>4, <2>6
    <3> HIDE DEF j, c
    <3>3. j \in SLs /\ j >= y /\ j \in h.sl_bitmap[x]
      BY <2>3, <3>1
    <3>4. c \in Classes /\ c[1] = x /\ c[2] = j
      BY <2>1, <3>2, <3>3 DEF Classes
    <3>5. h.blocks[c] # 0
      BY <3>3, <3>4 DEF Bitmaps
    <3>6. Before(s, c)
      BY <1>1, <1>2, <3>3, <3>4 DEF Before, SLs
    <3> QED
      BY <2>5, <3>4, <3>5, <3>6 DEF c, s
  <2>7. CASE here = {} /\ above # {}
    <3> DEFINE j == htfh_ffs(row)
    <3>1. f \in above
      BY <2>3, <2>7, FfsIs
    <3>2. f \in FLs /\ f \in h.fl_bitmap /\ f >= x + 1 /\ f \in Nat
      BY <2>3, <3>1
    <3>3. row # {} /\ row \in SUBSET SLs
      BY <2>2, <3>2 DEF Bitmaps
    <3>4. j \in row
      <4>1. row \in SUBSET Nat
        BY <1>2, <3>3 DEF SLs
      <4> QED
        BY <3>3, <4>1, FfsIs
    <3>5. c = <<f, j>>
      BY <2>4, <2>7, <3>3
    <3> HIDE DEF j, c, f
    <3>6. c \in Classes /\ c[1] = f /\ c[2] = j
      BY <3>2, <3>3, <3>4, <3>5 DEF Classes
    <3>7. h.blocks[c] # 0
      BY <3>4, <3>6 DEF Bitmaps
    <3>8. Before(s, c)
      BY <1>1, <3>2, <3>6 DEF Before
    <3> QED
      BY <2>5, <3>6, <3>7, <3>8 DEF c, s
  <2>8. CASE here = {} /\ above = {}
    <3>1. c = NoClass
      BY <2>4, <2>8
    <3>2. ASSUME NEW d \in Classes, Before(s, d), h.blocks[d] # 0 PROVE FALSE
      <4>1. d[2] \in h.sl_bitmap[d[1]] /\ d[1] \in FLs /\ d[1] \in Nat /\ d[2] \in Nat
        BY <1>4, <3>2 DEF Bitmaps
      <4>2. d[1] \in h.fl_bitmap
        BY <4>1 DEF Bitmaps
      <4>3. d[1] > x => d[1] \in above
        BY <1>1, <4>1, <4>2
      <4>4. d[1] = x /\ y <= d[2] => d[2] \in here
        BY <1>1, <4>1 DEF SLs
      <4> QED
        BY <1>1, <2>8, <3>2, <4>1, <4>3, <4>4 DEF Before
    <3> QED
      BY <3>1, <3>2 DEF s
  <2> QED
    BY <2>6, <2>7, <2>8
<1> QED
  BY <1>5, <1>6

-----------------------------------------------------------------------------
(* The heap between two calls, and while a block is out of the lists       *)

\* No two neighbours are free, but for those in X.
Apart(h, X) == \A b \in FreeOf(h) : block_next(h, b) \in FreeOf(h) => b \in X \/ block_next(h, b) \in X

HeapInv(h, T) == Tags(h, T) /\ Index(h, FreeOf(h)) /\ Apart(h, {})

Loose(h, T, x) == Tags(h, T) /\ x \in FreeOf(h) /\ Index(h, FreeOf(h) \ {x}) /\ Apart(h, {x})

\* The used blocks stay as they are.
SameUsed(h, g, T) == UsedOf(g, T) = UsedOf(h, T) /\ \A b \in UsedOf(h, T) : g.mem[b].size = h.mem[b].size

\* Nothing in front of a header is free when its flag is clear.
LEMMA PrevUsed ==
    ASSUME NEW h, NEW T, Tags(h, T), NEW x \in Dom(h), ~h.mem[x].prev_is_free, NEW b \in FreeOf(h)
    PROVE  block_next(h, b) # x
<1>1. b \in Dom(h) \ {T} /\ h.mem[b].is_free
  BY TagsType DEF FreeOf
<1>2. Chained(h, b)
  BY <1>1 DEF Tags
<1> QED
  BY <1>1, <1>2 DEF Chained

\* controller_block_find_free takes a block that is large enough out of its
\* list, or leaves the heap as it was.
LEMMA FindFree ==
    ASSUME NEW h, NEW T, HeapInv(h, T), NEW size \in Nat, size < block_size_max
    PROVE  LET f == controller_block_find_free(h, size)
               x == f.block
           IN  \/ /\ f = [h |-> h, block |-> NULL]
               \/ /\ x # NULL /\ Loose(f.h, T, x) /\ SameUsed(h, f.h, T) /\ x \in FreeOf(h)
                  /\ f.h.mem[x].size = h.mem[x].size /\ f.h.mem[x].size >= size
                  /\ ~f.h.mem[x].prev_is_free /\ block_next(f.h, x) \notin FreeOf(f.h)
                  /\ size # 0
<1> DEFINE c == SuitableClass(h, size)
           x == h.blocks[c]
           g == controller_remove_free_block(h, x, c)
           f == controller_block_find_free(h, size)
<1>1. Tags(h, T) /\ Index(h, FreeOf(h)) /\ Apart(h, {}) /\ HeapType(h) /\ Bitmaps(h)
  BY DEF HeapInv, Index, Tags
<1>2. \/ /\ c \in Classes /\ c # NoClass /\ x # 0
      \/ c = NoClass
  BY <1>1, SuitableIs
<1>6. c # NoClass => Linked(h, x)
  <2>1. ASSUME c # NoClass PROVE Linked(h, x)
    <3>1. x \in FreeOf(h) /\ mapping_insert(h.mem[x].size) = c /\ c \in Classes
      BY <1>1, <1>2, <2>1, HeadIs
    <3> HIDE DEF c, x
    <3> QED
      BY <1>1, <3>1, LinkedIs
  <2> QED
    BY <2>1
<1>7. f = IF c = NoClass \/ h.mem[x].size < size \/ ~Linked(h, x)
          THEN [h |-> h, block |-> NULL] ELSE [h |-> g, block |-> x]
  BY Zenon DEF controller_block_find_free
<1>3. f = IF c = NoClass \/ h.mem[x].size < size THEN [h |-> h, block |-> NULL] ELSE [h |-> g, block |-> x]
  <2> HIDE DEF c, x, g, f
  <2> QED
    BY <1>6, <1>7
<1>4. CASE c = NoClass \/ h.mem[x].size < size
  BY <1>3, <1>4
<1>5. CASE ~(c = NoClass \/ h.mem[x].size < size)
  <2>1. c \in Classes /\ x # 0 /\ ~(h.mem[x].size < size)
    BY <1>2, <1>5
  <2>2. x \in FreeOf(h) /\ mapping_insert(h.mem[x].size) = c
    BY <1>1, <2>1, HeadIs
  <2>3. f.h = g /\ f.block = x
    BY <1>3, <1>5
  <2>4. HeapType(g) /\ LinksOnly(h, g) /\ Index(g, FreeOf(h) \ {x})
    BY <1>1, <2>1, <2>2, RemoveKeeps
  <2> HIDE DEF c, x, g, f
  <2>5. /\ Tags(g, T) /\ Dom(g) = Dom(h) /\ FreeOf(g) = FreeOf(h) /\ UsedOf(g, T) = UsedOf(h, T)
        /\ \A b \in Dom(h) : block_next(g, b) = block_next(h, b)
    BY <1>1, <2>4, LinksTags
  <2>6. /\ x \in Dom(h) \ {T} /\ x \in Dom(h) /\ x \in Nat /\ h.mem[x].size \in Nat
        /\ g.mem[x].size = h.mem[x].size /\ g.mem[x].prev_is_free = h.mem[x].prev_is_free
    BY <1>1, <2>2, <2>4, TagsType, NextIs DEF LinksOnly
  <2>7. Apart(g, {x})
    BY <1>1, <2>5 DEF Apart, FreeOf
  <2>8. block_next(g, x) \notin FreeOf(g)
    BY <1>1, <2>2, <2>5, <2>6 DEF Apart
  <2>9. ~h.mem[x].prev_is_free
    <3>1. ASSUME h.mem[x].prev_is_free PROVE FALSE
      <4>1. PICK p : p \in FreeOf(h) /\ block_next(h, p) = x
        BY <1>1, <2>6, <3>1, PrevIs
      <4> QED
        BY <1>1, <2>2, <4>1 DEF Apart
    <3> QED
      BY <3>1
  <2>10. SameUsed(h, g, T)
    BY <2>4, <2>5 DEF SameUsed, LinksOnly, UsedOf
  <2>11. Loose(g, T, x)
    BY <2>2, <2>4, <2>5, <2>7 DEF Loose
  <2>12. x # NULL /\ h.mem[x].size >= size
    BY <2>1, <2>6 DEF NULL
  <2>13. size # 0
    <3>1. ASSUME size = 0 PROVE c = NoClass
      BY <3>1 DEF c, SuitableClass
    <3> QED
      BY <1>5, <3>1
  <2> QED
    BY <2>2, <2>3, <2>6, <2>8, <2>9, <2>10, <2>11, <2>12, <2>13 DEF f
<1> QED
  BY <1>4, <1>5

-----------------------------------------------------------------------------
(* Freeing: a block leaves its client, merges and goes to its list         *)

\* A block in use that is marked free, before it is in a list.
LEMMA FreedLoose ==
    ASSUME NEW h, NEW T, HeapInv(h, T), NEW b \in UsedOf(h, T)
    PROVE  LET g == block_mark_as_free(h, b)
           IN  /\ Loose(g, T, b) /\ UsedOf(g, T) = UsedOf(h, T) \ {b}
               /\ \A a \in UsedOf(h, T) : g.mem[a].size = h.mem[a].size
<1> DEFINE g == block_mark_as_free(h, b)
<1>1. Tags(h, T) /\ Index(h, FreeOf(h)) /\ Apart(h, {}) /\ b \in Dom(h) \ {T} /\ b \notin FreeOf(h)
      /\ FreeOf(h) \subseteq Dom(h) /\ UsedOf(h, T) \subseteq Dom(h)
  BY DEF HeapInv, UsedOf, FreeOf
<1>2. IsFlagged(h, g, b, 1) /\ IndexOnly(h, g, Dom(h))
  BY <1>1, MarkAsFree
<1> HIDE DEF g
<1>3. /\ Tags(g, T) /\ FreeOf(g) = FreeOf(h) \cup {b} /\ UsedOf(g, T) = UsedOf(h, T) \ {b} /\ Dom(g) = Dom(h)
      /\ \A a \in Dom(h) : block_next(g, a) = block_next(h, a) /\ g.mem[a].size = h.mem[a].size
  BY <1>1, <1>2, FlaggedTags
<1>4. Index(g, FreeOf(h))
  <2>1. IndexOnly(h, g, FreeOf(h))
    BY <1>1, <1>2 DEF IndexOnly
  <2> QED
    BY <1>1, <2>1, IndexSame
<1>5. FreeOf(g) \ {b} = FreeOf(h)
  BY <1>1, <1>3
<1>6. Apart(g, {b})
  BY <1>1, <1>3 DEF Apart
<1>7. Loose(g, T, b)
  BY <1>3, <1>4, <1>5, <1>6 DEF Loose
<1> QED
  BY <1>1, <1>3, <1>7 DEF g

\* Taking a block y out of its list while x is out of its own
LEMMA RemoveLoose ==
    ASSUME NEW h, NEW T, NEW x, Loose(h, T, x), NEW y \in FreeOf(h) \ {x}
    PROVE  LET g == controller_block_remove(h, y)
           IN  /\ Tags(g, T) /\ Index(g, FreeOf(h) \ {x, y}) /\ Linked(h, y) /\ LinksOnly(h, g)
               /\ FreeOf(g) = FreeOf(h) /\ UsedOf(g, T) = UsedOf(h, T) /\ Dom(g) = Dom(h)
               /\ \A a \in Dom(h) : block_next(g, a) = block_next(h, a)
<1> DEFINE g == controller_block_remove(h, y)
           N == FreeOf(h) \ {x}
<1>1. Tags(h, T) /\ Index(h, N) /\ HeapType(h) /\ y \in N /\ y \in Dom(h) \ {T}
  BY TagsType DEF Loose, Tags
<1>2. mapping_insert(h.mem[y].size) \in Classes
  BY <1>1, FreeClass
<1>3. Linked(h, y)
  BY <1>1, <1>2, LinkedIs
<1>4. HeapType(g) /\ LinksOnly(h, g) /\ Index(g, N \ {y})
  BY <1>1, <1>2, RemoveKeeps DEF controller_block_remove
<1>5. N \ {y} = FreeOf(h) \ {x, y}
  OBVIOUS
<1> HIDE DEF g, N
<1>6. /\ Tags(g, T) /\ Dom(g) = Dom(h) /\ FreeOf(g) = FreeOf(h) /\ UsedOf(g, T) = UsedOf(h, T)
      /\ \A b \in Dom(h) : block_next(g, b) = block_next(h, b)
  BY <1>1, <1>4, LinksTags
<1> QED
  BY <1>3, <1>4, <1>5, <1>6 DEF g

AbsorbedLoose(h, g, T, p, b) ==
    /\ Loose(g, T, p) /\ SameUsed(h, g, T)
    /\ g.mem[p].prev_is_free = h.mem[p].prev_is_free
    /\ block_next(g, p) = block_next(h, b) /\ FreeOf(g) = FreeOf(h) \ {b}

\* p, in front of b, takes it over: one of them is x, the other is out of its list.
LEMMA AbsorbLoose ==
    ASSUME NEW h, NEW T, NEW x, NEW p \in FreeOf(h), NEW b \in FreeOf(h), block_next(h, p) = b,
           Tags(h, T), Apart(h, {x}), Index(h, FreeOf(h) \ {p, b}), x \in {p, b}
    PROVE  AbsorbedLoose(h, block_absorb(h, p, b), T, p, b)
<1> DEFINE g == block_absorb(h, p, b)
<1>1. /\ p \in Dom(h) \ {T} /\ b \in Dom(h) \ {T} /\ FreeOf(h) \subseteq Dom(h) /\ p # b
      /\ UsedOf(h, T) \cap FreeOf(h) = {} /\ UsedOf(h, T) \subseteq Dom(h)
  BY TagsType, NextIs DEF UsedOf
<1>2. IsAbsorbed(h, g, p, b) /\ IndexOnly(h, g, Dom(h) \ {p, b})
  BY <1>1, Absorb
<1> HIDE DEF g
<1>3. /\ Tags(g, T) /\ FreeOf(g) = FreeOf(h) \ {b} /\ UsedOf(g, T) = UsedOf(h, T)
      /\ block_next(g, p) = block_next(h, b)
      /\ \A a \in Dom(g) \ {p} : block_next(g, a) = block_next(h, a) /\ g.mem[a].size = h.mem[a].size
      /\ g.mem[p].prev_is_free = h.mem[p].prev_is_free
  <2>1. AbsorbedIs(h, g, T, p, b)
    BY <1>2, AbsorbedTags
  <2> QED
    BY <2>1 DEF AbsorbedIs
<1>4. Dom(g) = Dom(h) \ {b}
  BY <1>2 DEF IsAbsorbed
<1>5. Index(g, FreeOf(g) \ {p})
  <2>1. IndexOnly(h, g, FreeOf(h) \ {p, b})
    BY <1>1, <1>2 DEF IndexOnly
  <2>2. FreeOf(g) \ {p} = FreeOf(h) \ {p, b}
    BY <1>3
  <2> QED
    BY <2>1, <2>2, IndexSame
<1>6. Apart(g, {p})
  <2>1. ASSUME NEW a \in FreeOf(g), block_next(g, a) \in FreeOf(g), a # p, block_next(g, a) # p PROVE FALSE
    <3>1. a \in Dom(g) \ {p} /\ a \in FreeOf(h) /\ a # b
      BY <1>3, <2>1 DEF FreeOf
    <3>2. block_next(g, a) = block_next(h, a) /\ block_next(h, a) \in FreeOf(h) /\ block_next(h, a) # b
      BY <1>3, <2>1, <3>1
    <3> QED
      BY <2>1, <3>1, <3>2 DEF Apart
  <2> QED
    BY <2>1 DEF Apart
<1>7. SameUsed(h, g, T)
  <2>1. \A a \in UsedOf(h, T) : a \in Dom(g) \ {p}
    BY <1>1, <1>4
  <2> QED
    BY <1>3, <2>1 DEF SameUsed
<1> QED
  BY <1>1, <1>3, <1>5, <1>6, <1>7 DEF g, Loose, AbsorbedLoose

\* controller_block_merge_prev never refuses, and joins what is in front,
LEMMA MergePrev ==
    ASSUME NEW h, NEW T, NEW b, Loose(h, T, b)
    PROVE  LET r == controller_block_merge_prev(h, b)
               g == r.h
           IN  /\ r.block # NULL /\ Loose(g, T, r.block) /\ SameUsed(h, g, T)
               /\ ~g.mem[r.block].prev_is_free
<1> DEFINE r == controller_block_merge_prev(h, b)
           p == h.mem[b].prev_phys_block
           e == controller_block_remove(h, p)
           g == block_absorb(e, p, b)
<1>1. /\ Tags(h, T) /\ b \in FreeOf(h) /\ Apart(h, {b}) /\ HeapType(h) /\ b \in Dom(h) \ {T} /\ b \in Dom(h)
      /\ b \in Nat
  BY TagsType DEF Loose
<1>2. CASE ~h.mem[b].prev_is_free
  <2>1. r = [h |-> h, block |-> b]
    BY <1>2 DEF controller_block_merge_prev
  <2>2. b # NULL /\ SameUsed(h, h, T)
    BY <1>1 DEF NULL, SameUsed
  <2> QED
    BY <1>2, <2>1, <2>2
<1>3. CASE h.mem[b].prev_is_free
  <2>1. p \in FreeOf(h) /\ p \in Dom(h) \ {T} /\ block_next(h, p) = b
    BY <1>1, <1>3, PrevIs
  <2>2. p # b /\ p \in Nat /\ p < b
    <3> HIDE DEF p
    <3> QED
      BY <1>1, <2>1, NextIs
  <2>3. /\ Tags(e, T) /\ Index(e, FreeOf(h) \ {b, p}) /\ Linked(h, p) /\ LinksOnly(h, e)
        /\ FreeOf(e) = FreeOf(h) /\ UsedOf(e, T) = UsedOf(h, T) /\ Dom(e) = Dom(h)
        /\ \A a \in Dom(h) : block_next(e, a) = block_next(h, a)
    BY <2>1, <2>2, RemoveLoose
  <2>4. r = [h |-> g, block |-> p]
    <3>1. h.mem[p].is_free /\ Linked(h, p)
      BY <2>1, <2>3 DEF FreeOf
    <3> QED
      BY <1>3, <3>1 DEF controller_block_merge_prev
  <2> HIDE DEF e, p
  <2>5. Apart(e, {b})
    BY <1>1, <2>3 DEF Apart, FreeOf
  <2>6. /\ Loose(g, T, p) /\ SameUsed(e, g, T) /\ g.mem[p].prev_is_free = e.mem[p].prev_is_free
    <3>1. p \in FreeOf(e) /\ b \in FreeOf(e) /\ block_next(e, p) = b
      BY <1>1, <2>1, <2>3
    <3>2. Index(e, FreeOf(e) \ {p, b})
      <4>1. {p, b} = {b, p}
        OBVIOUS
      <4> QED
        BY <2>3, <4>1
    <3>3. AbsorbedLoose(e, g, T, p, b)
      BY <2>3, <2>5, <3>1, <3>2, AbsorbLoose
    <3> QED
      BY <3>3 DEF AbsorbedLoose
  <2> HIDE DEF g, r
  <2>7. SameUsed(h, g, T)
    BY <2>3, <2>6 DEF SameUsed, LinksOnly, UsedOf
  <2>8. ~h.mem[p].prev_is_free
    <3>1. ASSUME h.mem[p].prev_is_free PROVE FALSE
      <4>1. PICK q : q \in FreeOf(h) /\ q \in Dom(h) \ {T} /\ block_next(h, q) = p
        BY <1>1, <2>1, <3>1, PrevIs
      <4>2. q # b
        BY <1>1, <2>2, <4>1, NextIs
      <4> QED
        BY <1>1, <2>1, <2>2, <4>1, <4>2 DEF Apart
    <3> QED
      BY <3>1
  <2>9. ~g.mem[p].prev_is_free
    BY <2>1, <2>3, <2>6, <2>8 DEF LinksOnly
  <2>10. p # NULL
    BY <2>2 DEF NULL
  <2> QED
    BY <2>4, <2>6, <2>7, <2>9, <2>10 DEF r
<1> QED
  BY <1>2, <1>3

\* and controller_block_merge_next what is behind.
LEMMA MergeNext ==
    ASSUME NEW h, NEW T, NEW b, Loose(h, T, b), ~h.mem[b].prev_is_free
    PROVE  LET r == controller_block_merge_next(h, b)
               g == r.h
           IN  /\ r.block = b /\ b # NULL /\ Loose(g, T, b) /\ SameUsed(h, g, T)
               /\ ~g.mem[b].prev_is_free /\ block_next(g, b) \notin FreeOf(g)
<1> DEFINE r == controller_block_merge_next(h, b)
           n == block_next(h, b)
           e == controller_block_remove(h, n)
           g == block_absorb(e, b, n)
<1>1. /\ Tags(h, T) /\ b \in FreeOf(h) /\ Apart(h, {b}) /\ HeapType(h) /\ b \in Dom(h) \ {T} /\ b \in Dom(h)
      /\ b \in Nat
  BY TagsType DEF Loose
<1>2. n \in Dom(h) /\ n # b /\ n \in Nat /\ b < n
  BY <1>1, NextIs
<1>3. b # NULL
  BY <1>1 DEF NULL
<1>4. CASE ~h.mem[n].is_free
  <2>1. r = [h |-> h, block |-> b]
    BY <1>4 DEF controller_block_merge_next
  <2>2. SameUsed(h, h, T) /\ n \notin FreeOf(h)
    BY <1>4 DEF SameUsed, FreeOf
  <2> QED
    BY <1>3, <2>1, <2>2
<1>5. CASE h.mem[n].is_free
  <2>1. n \in FreeOf(h) /\ n \in Dom(h) \ {T}
    BY <1>1, <1>2, <1>5, TagsType DEF FreeOf
  <2>3. /\ Tags(e, T) /\ Index(e, FreeOf(h) \ {b, n}) /\ Linked(h, n) /\ LinksOnly(h, e)
        /\ FreeOf(e) = FreeOf(h) /\ UsedOf(e, T) = UsedOf(h, T) /\ Dom(e) = Dom(h)
        /\ \A a \in Dom(h) : block_next(e, a) = block_next(h, a)
    BY <1>2, <2>1, RemoveLoose
  <2>4. r = [h |-> g, block |-> b]
    BY <1>5, <2>3 DEF controller_block_merge_next
  <2>a. block_next(h, b) = n
    OBVIOUS
  <2> HIDE DEF e, n
  <2>5. Apart(e, {b})
    BY <1>1, <2>3 DEF Apart, FreeOf
  <2>6. /\ Loose(g, T, b) /\ SameUsed(e, g, T) /\ g.mem[b].prev_is_free = e.mem[b].prev_is_free
        /\ block_next(g, b) = block_next(e, n) /\ FreeOf(g) = FreeOf(e) \ {n}
    <3>1. n \in FreeOf(e) /\ b \in FreeOf(e) /\ block_next(e, b) = n
      BY <1>1, <2>1, <2>3, <2>a
    <3>2. Index(e, FreeOf(e) \ {b, n})
      BY <2>3
    <3>3. AbsorbedLoose(e, g, T, b, n)
      BY <2>3, <2>5, <3>1, <3>2, AbsorbLoose
    <3> QED
      BY <3>3 DEF AbsorbedLoose
  <2> HIDE DEF g, r
  <2>7. SameUsed(h, g, T)
    BY <2>3, <2>6 DEF SameUsed, LinksOnly, UsedOf
  <2>8. block_next(h, n) \notin FreeOf(h)
    <3>1. n < block_next(h, n) /\ block_next(h, n) \in Nat
      BY <1>1, <2>1, NextIs
    <3>2. block_next(h, n) # b
      BY <1>1, <1>2, <3>1
    <3> QED
      BY <1>1, <1>2, <2>1, <3>2 DEF Apart
  <2>9. ~g.mem[b].prev_is_free /\ block_next(g, b) \notin FreeOf(g)
    BY <1>1, <1>2, <2>3, <2>6, <2>8 DEF LinksOnly
  <2> QED
    BY <1>3, <2>4, <2>6, <2>7, <2>9 DEF r
<1> QED
  BY <1>4, <1>5

\* With both neighbours in use the block goes into its list.
LEMMA InsertLoose ==
    ASSUME NEW h, NEW T, NEW x, Loose(h, T, x), ~h.mem[x].prev_is_free, block_next(h, x) \notin FreeOf(h)
    PROVE  LET g == controller_block_insert(h, x)
           IN  HeapInv(g, T) /\ SameUsed(h, g, T)
<1> DEFINE g == controller_block_insert(h, x)
           N == FreeOf(h) \ {x}
<1>1. Tags(h, T) /\ Index(h, N) /\ HeapType(h) /\ x \in FreeOf(h) /\ x \in Dom(h) \ {T} /\ x \in Dom(h) \ N
      /\ Apart(h, {x}) /\ FreeOf(h) \subseteq Dom(h)
  BY TagsType DEF Loose, Tags
<1>2. mapping_insert(h.mem[x].size) \in Classes
  BY <1>1, FreeClass
<1>4. HeapType(g) /\ LinksOnly(h, g) /\ Index(g, N \cup {x})
  BY <1>1, <1>2, InsertKeeps DEF controller_block_insert
<1>5. N \cup {x} = FreeOf(h)
  BY <1>1
<1> HIDE DEF g, N
<1>6. /\ Tags(g, T) /\ Dom(g) = Dom(h) /\ FreeOf(g) = FreeOf(h) /\ UsedOf(g, T) = UsedOf(h, T)
      /\ \A b \in Dom(h) : block_next(g, b) = block_next(h, b)
  BY <1>1, <1>4, LinksTags
<1>7. Apart(g, {})
  <2>1. ASSUME NEW b \in FreeOf(h), block_next(h, b) \in FreeOf(h) PROVE FALSE
    <3>1. b = x \/ block_next(h, b) = x
      BY <1>1, <2>1 DEF Apart
    <3>2. block_next(h, b) # x
      BY <1>1, PrevUsed
    <3> QED
      BY <2>1, <3>1, <3>2
  <2> QED
    BY <1>1, <1>6, <2>1 DEF Apart
<1>8. SameUsed(h, g, T)
  BY <1>4, <1>6 DEF SameUsed, LinksOnly, UsedOf
<1> QED
  BY <1>4, <1>5, <1>6, <1>7, <1>8 DEF g, HeapInv

\* htfh_free gives back a block in use and refuses one that is free.
LEMMA FreeKeeps ==
    ASSUME NEW h, NEW T, HeapInv(h, T), NEW b \in UsedOf(h, T)
    PROVE  LET f == htfh_free(h, b)
           IN  /\ f.ok = TRUE /\ HeapInv(f.h, T) /\ UsedOf(f.h, T) = UsedOf(h, T) \ {b}
               /\ \A a \in UsedOf(h, T) \ {b} : f.h.mem[a].size = h.mem[a].size
<1> DEFINE e == block_mark_as_free(h, b)
           m == controller_block_merge_prev(e, b)
           n == controller_block_merge_next(m.h, m.block)
           g == controller_block_insert(n.h, n.block)
           f == htfh_free(h, b)
<1>1. /\ Loose(e, T, b) /\ UsedOf(e, T) = UsedOf(h, T) \ {b}
      /\ \A a \in UsedOf(h, T) : e.mem[a].size = h.mem[a].size
  BY FreedLoose
<1> HIDE DEF e
<1>2. m.block # NULL /\ Loose(m.h, T, m.block) /\ SameUsed(e, m.h, T) /\ ~m.h.mem[m.block].prev_is_free
  BY <1>1, MergePrev
<1> HIDE DEF m
<1>3. /\ n.block = m.block /\ Loose(n.h, T, n.block) /\ SameUsed(m.h, n.h, T)
      /\ ~n.h.mem[n.block].prev_is_free /\ block_next(n.h, n.block) \notin FreeOf(n.h)
  BY <1>2, MergeNext
<1> HIDE DEF n
<1>4. HeapInv(g, T) /\ SameUsed(n.h, g, T)
  BY <1>3, InsertLoose
<1> HIDE DEF g
<1>5. f = [h |-> g, ok |-> TRUE]
  <2>1. ~h.mem[b].is_free
    BY DEF UsedOf
  <2>2. f = FreeMerged(m)
    BY <2>1 DEF htfh_free, e, m
  <2>3. FreeMerged(m) = FreeInserted(n)
    BY <1>2 DEF FreeMerged, n
  <2>4. n.block # NULL
    BY <1>2, <1>3
  <2>5. FreeInserted(n) = [h |-> g, ok |-> TRUE]
    BY <2>4 DEF FreeInserted, g
  <2> QED
    BY <2>2, <2>3, <2>5
<1> HIDE DEF f
<1>6. SameUsed(e, g, T)
  BY <1>2, <1>3, <1>4 DEF SameUsed
<1>7. UsedOf(g, T) = UsedOf(h, T) \ {b} /\ \A a \in UsedOf(h, T) \ {b} : g.mem[a].size = h.mem[a].size
  BY <1>1, <1>6 DEF SameUsed
<1> QED
  BY <1>4, <1>5, <1>7 DEF f

-----------------------------------------------------------------------------
(* Allocating: what is too much of a block goes back, the block is marked  *)

\* controller_block_mark_used gives back what is left over and keeps the rest
\* for the client.
LEMMA MarkUsedKeeps ==
    ASSUME NEW h, NEW T, NEW x, Loose(h, T, x), block_next(h, x) \notin FreeOf(h),
           NEW size \in Nat, size >= 24, Aligned(size), size <= h.mem[x].size
    PROVE  LET g == controller_block_mark_used(h, x, size)
           IN  /\ HeapInv(g, T) /\ UsedOf(g, T) = UsedOf(h, T) \cup {x} /\ x \notin UsedOf(h, T)
               /\ \A a \in UsedOf(h, T) : g.mem[a].size = h.mem[a].size
               /\ g.mem[x].size \in Nat /\ g.mem[x].size >= size
<1> DEFINE k == controller_block_trim_free(h, x, size)
           g == block_mark_as_used(k, x)
<1>1. /\ Tags(h, T) /\ x \in FreeOf(h) /\ Apart(h, {x}) /\ HeapType(h) /\ x \in Dom(h) \ {T} /\ x \in Dom(h)
      /\ x \in Nat /\ h.mem[x].size \in Nat /\ Index(h, FreeOf(h) \ {x}) /\ FreeOf(h) \subseteq Dom(h)
      /\ x \notin UsedOf(h, T) /\ UsedOf(h, T) \subseteq Dom(h)
  BY TagsType, NextIs DEF Loose, UsedOf
\* The heap before the block is marked
<1>2. /\ Tags(k, T) /\ UsedOf(k, T) = UsedOf(h, T) /\ x \in FreeOf(k) /\ Index(k, FreeOf(k) \ {x})
      /\ Apart(k, {x}) /\ (\A a \in UsedOf(h, T) : k.mem[a].size = h.mem[a].size)
      /\ k.mem[x].size \in Nat /\ k.mem[x].size >= size
  <2>1. CASE ~block_can_split(h, x, size)
    <3>1. k = h
      BY <2>1 DEF controller_block_trim_free
    <3> QED
      BY <1>1, <3>1
  <2>2. CASE block_can_split(h, x, size)
    <3> DEFINE rest == x + 8 + size
               e == TrimmedFree(h, x, size)
               c == controller_block_insert(e, rest)
    <3>1. size + 32 <= h.mem[x].size
      BY <1>1, <2>2 DEF block_can_split, sizeof_BlockHeader, Word
    <3>2. Remaining(x, size) = rest
      BY <1>1, <3>1, CutIs
    <3>3. k = c
      <4>1. k = controller_block_insert(e, Remaining(x, size))
        BY <2>2, Zenon DEF controller_block_trim_free, TrimmedFree, PrevFree
      <4> QED
        BY <3>2, <4>1
    <3>4. IsSplit(h, e, x, size, rest) /\ IndexOnly(h, e, Dom(h) \ {x})
      BY <1>1, <3>1, CutLinks
    <3> HIDE DEF e
    <3>5. /\ Tags(e, T) /\ rest \notin Dom(h) /\ rest # T /\ rest # x
          /\ FreeOf(e) = FreeOf(h) \cup {rest} /\ UsedOf(e, T) = UsedOf(h, T)
          /\ e.mem[x].size = size
          /\ block_next(e, x) = rest /\ block_next(e, rest) = block_next(h, x)
          /\ \A a \in Dom(h) \ {x} : block_next(e, a) = block_next(h, a) /\ e.mem[a].size = h.mem[a].size
      BY <1>1, <3>1, <3>4, SplitTags
    <3> HIDE DEF rest
    <3> DEFINE N == FreeOf(h) \ {x}
    <3>6. Index(e, N)
      <4>1. IndexOnly(h, e, N)
        BY <1>1, <3>4 DEF IndexOnly
      <4> QED
        BY <1>1, <4>1, IndexSame
    <3>7. HeapType(c) /\ LinksOnly(e, c) /\ Index(c, N \cup {rest})
      <4>1. rest \in Dom(e) \ {T} /\ rest \in Dom(e) \ N /\ HeapType(e)
        BY <1>1, <3>5, TagsType DEF FreeOf
      <4>2. mapping_insert(e.mem[rest].size) \in Classes
        BY <3>5, <4>1, FreeClass
      <4> HIDE DEF N
      <4> QED
        BY <3>6, <4>1, <4>2, InsertKeeps DEF controller_block_insert
    <3> HIDE DEF c
    <3>8. /\ Tags(c, T) /\ Dom(c) = Dom(e) /\ FreeOf(c) = FreeOf(e) /\ UsedOf(c, T) = UsedOf(e, T)
          /\ \A b \in Dom(e) : block_next(c, b) = block_next(e, b)
      BY <3>5, <3>7, LinksTags
    <3>9. N \cup {rest} = FreeOf(c) \ {x}
      BY <3>5, <3>8
    <3>10. FreeOf(e) \subseteq Dom(e) /\ UsedOf(e, T) \subseteq Dom(e)
      BY DEF FreeOf, UsedOf
    <3>11. Apart(c, {x})
      <4>1. ASSUME NEW b \in FreeOf(e), block_next(e, b) \in FreeOf(e), b # x, block_next(e, b) # x PROVE FALSE
        <5>1. CASE b = rest
          <6>1. block_next(e, b) = block_next(h, x) /\ block_next(h, x) # rest
            BY <1>1, <3>5, <5>1, NextIs
          <6> QED
            BY <3>5, <4>1, <6>1
        <5>2. CASE b # rest
          <6>1. b \in FreeOf(h) /\ b \in Dom(h) \ {x}
            BY <1>1, <3>5, <4>1, <5>2
          <6>2. block_next(e, b) = block_next(h, b)
            BY <3>5, <6>1
          <6>3. block_next(h, b) # rest
            <7>1. b \in Dom(h) \ {T}
              BY <1>1, <6>1, TagsType
            <7>2. block_next(h, b) \in Dom(h)
              BY <1>1, <7>1, NextIs
            <7> QED
              BY <3>5, <7>2
          <6>4. block_next(h, b) \in FreeOf(h)
            BY <3>5, <4>1, <6>2, <6>3
          <6> QED
            BY <1>1, <4>1, <6>1, <6>2, <6>4 DEF Apart
        <5> QED
          BY <5>1, <5>2
      <4> QED
        BY <3>8, <3>10, <4>1 DEF Apart
    <3>12. \A a \in UsedOf(h, T) : c.mem[a].size = h.mem[a].size
      <4>1. \A a \in UsedOf(h, T) : a \in Dom(h) \ {x} /\ a \in Dom(e)
        BY <1>1, <3>5, <3>10
      <4> QED
        BY <3>5, <3>7, <4>1 DEF LinksOnly
    <3>13. c.mem[x].size = size /\ x \in FreeOf(c)
      BY <1>1, <3>5, <3>7, <3>8, <3>10 DEF LinksOnly
    <3>14. size >= size
      OBVIOUS
    <3> QED
      BY <3>3, <3>5, <3>7, <3>8, <3>9, <3>11, <3>12, <3>13, <3>14
  <2> QED
    BY <2>1, <2>2
<1>3. controller_block_mark_used(h, x, size) = g
  BY DEF controller_block_mark_used
<1> HIDE DEF k
<1>4. x \in Dom(k) \ {T} /\ x \in Dom(k) /\ FreeOf(k) \subseteq Dom(k) /\ UsedOf(k, T) \subseteq Dom(k)
  BY <1>2, TagsType DEF UsedOf
<1>5. IsFlagged(k, g, x, 0) /\ IndexOnly(k, g, Dom(k) \ {x})
  BY <1>2, <1>4, MarkAsUsed
<1> HIDE DEF g
<1>6. /\ Tags(g, T) /\ FreeOf(g) = FreeOf(k) \ {x} /\ UsedOf(g, T) = UsedOf(k, T) \cup {x}
      /\ \A a \in Dom(k) : block_next(g, a) = block_next(k, a) /\ g.mem[a].size = k.mem[a].size
  BY <1>2, <1>4, <1>5, FlaggedTags
<1>7. Index(g, FreeOf(g))
  <2>1. IndexOnly(k, g, FreeOf(k) \ {x})
    BY <1>4, <1>5 DEF IndexOnly
  <2> QED
    BY <1>2, <1>6, <2>1, IndexSame
<1>8. Apart(g, {})
  BY <1>2, <1>4, <1>6 DEF Apart
<1> QED
  BY <1>1, <1>2, <1>3, <1>4, <1>6, <1>7, <1>8 DEF HeapInv

\* The first gap bytes go back to a list, the rest is the block.
LEMMA LeadingKeeps ==
    ASSUME NEW h, NEW T, NEW x, Loose(h, T, x), ~h.mem[x].prev_is_free, block_next(h, x) \notin FreeOf(h),
           NEW gap \in Nat, gap >= 32, Aligned(gap), gap + 32 <= h.mem[x].size
    PROVE  LET g == controller_block_trim_free_leading(h, x, gap)
               rest == LeadingRest(h, x, gap)
           IN  /\ rest = x + gap /\ Loose(g, T, rest) /\ block_next(g, rest) \notin FreeOf(g)
               /\ SameUsed(h, g, T) /\ g.mem[rest].size = h.mem[x].size - gap
<1> DEFINE size == gap - 8
           rest == x + 8 + size
           e == TrimmedLeading(h, x, size)
           g == controller_block_insert(e, x)
           N == FreeOf(h) \ {x}
<1>1. /\ Tags(h, T) /\ x \in FreeOf(h) /\ Apart(h, {x}) /\ HeapType(h) /\ x \in Dom(h) \ {T} /\ x \in Dom(h)
      /\ x \in Nat /\ h.mem[x].size \in Nat /\ Index(h, N) /\ FreeOf(h) \subseteq Dom(h)
      /\ x \notin UsedOf(h, T) /\ UsedOf(h, T) \subseteq Dom(h)
  BY TagsType, NextIs DEF Loose, UsedOf
<1>2. size \in Nat /\ size >= 24 /\ size + 32 <= h.mem[x].size /\ rest = x + gap /\ size = gap - block_header_overhead
  BY <1>1 DEF block_header_overhead, Word
<1>3. Aligned(size)
  <2>1. CASE ALIGN_SIZE = 4
    BY <2>1 DEF Aligned
  <2>2. CASE ALIGN_SIZE = 8
    BY <2>2 DEF Aligned
  <2> QED
    BY <2>1, <2>2, Constants
<1>4. Remaining(x, size) = rest
  BY <1>1, <1>2, CutIs
<1>5. LeadingRest(h, x, gap) = rest /\ rest # x
  <2>1. block_can_split(h, x, gap)
    BY <1>1 DEF block_can_split, sizeof_BlockHeader, Word
  <2> QED
    BY <1>1, <1>2, <1>4, <2>1 DEF LeadingRest
<1>6. controller_block_trim_free_leading(h, x, gap) = g
  <2> DEFINE s == gap - block_header_overhead
             r == LeadingRest(h, x, gap)
  <2>1. r # x => controller_block_trim_free_leading(h, x, gap) =
            controller_block_insert(
                 block_link_next([block_split(h, x, s) EXCEPT !.mem[r].prev_is_free = TRUE], x), x)
    BY Zenon DEF controller_block_trim_free_leading
  <2>2. [block_split(h, x, s) EXCEPT !.mem[r].prev_is_free = TRUE] = PrevFree(block_split(h, x, s), r)
    BY Zenon DEF PrevFree
  <2>3. r = Remaining(x, s) /\ s = size /\ r # x
    BY <1>2, <1>4, <1>5
  <2>4. e = block_link_next(PrevFree(block_split(h, x, size), Remaining(x, size)), x)
    BY Zenon DEF TrimmedLeading
  <2> HIDE DEF s, r, e, size
  <2> QED
    BY <2>1, <2>2, <2>3, <2>4
<1>7. IsSplit(h, e, x, size, rest) /\ IndexOnly(h, e, Dom(h) \ {x})
  BY <1>1, <1>2, CutLinks
<1> HIDE DEF e
<1>8. /\ Tags(e, T) /\ rest \notin Dom(h) /\ rest # T /\ rest # x
      /\ FreeOf(e) = FreeOf(h) \cup {rest} /\ UsedOf(e, T) = UsedOf(h, T)
      /\ e.mem[x].size = size /\ e.mem[rest].size = h.mem[x].size - (size + 8)
      /\ block_next(e, x) = rest /\ block_next(e, rest) = block_next(h, x)
      /\ \A a \in Dom(h) \ {x} : block_next(e, a) = block_next(h, a) /\ e.mem[a].size = h.mem[a].size
  <2> HIDE DEF size
  <2> QED
    BY <1>1, <1>2, <1>3, <1>7, SplitTags
<1>9. e.mem[rest].size = h.mem[x].size - gap
  BY <1>1, <1>2, <1>8
<1> HIDE DEF rest, size
<1>10. Index(e, N)
  <2>1. IndexOnly(h, e, N)
    BY <1>1, <1>7 DEF IndexOnly
  <2> QED
    BY <1>1, <2>1, IndexSame
<1>11. HeapType(g) /\ LinksOnly(e, g) /\ Index(g, N \cup {x})
  <2>1. x \in Dom(e) \ {T} /\ x \in Dom(e) \ N /\ HeapType(e)
    BY <1>1, <1>8, TagsType DEF FreeOf
  <2>2. mapping_insert(e.mem[x].size) \in Classes
    BY <1>8, <2>1, FreeClass
  <2> HIDE DEF N
  <2> QED
    BY <1>10, <2>1, <2>2, InsertKeeps DEF controller_block_insert
<1> HIDE DEF g
<1>12. /\ Tags(g, T) /\ Dom(g) = Dom(e) /\ FreeOf(g) = FreeOf(e) /\ UsedOf(g, T) = UsedOf(e, T)
       /\ \A b \in Dom(e) : block_next(g, b) = block_next(e, b)
  BY <1>8, <1>11, LinksTags
<1>13. N \cup {x} = FreeOf(g) \ {rest} /\ rest \in FreeOf(g)
  BY <1>1, <1>8, <1>12
<1>14. FreeOf(e) \subseteq Dom(e) /\ UsedOf(e, T) \subseteq Dom(e)
  BY DEF FreeOf, UsedOf
<1>15. Apart(g, {rest})
  <2>1. ASSUME NEW b \in FreeOf(e), block_next(e, b) \in FreeOf(e), b # rest, block_next(e, b) # rest PROVE FALSE
    <3>1. b \in FreeOf(h) /\ b # x
      BY <1>8, <2>1
    <3>2. block_next(e, b) = block_next(h, b) /\ block_next(h, b) \in FreeOf(h)
      BY <1>1, <1>8, <2>1, <3>1
    <3>3. block_next(h, b) # x
      BY <1>1, <3>1, PrevUsed
    <3> QED
      BY <1>1, <3>1, <3>2, <3>3 DEF Apart
  <2> QED
    BY <1>12, <1>14, <2>1 DEF Apart
<1>16. SameUsed(h, g, T)
  <2>1. \A a \in UsedOf(h, T) : a \in Dom(h) \ {x} /\ a \in Dom(e)
    BY <1>1, <1>8, <1>14
  <2> QED
    BY <1>8, <1>11, <1>12, <2>1 DEF LinksOnly, SameUsed
<1>17. block_next(g, rest) \notin FreeOf(g) /\ g.mem[rest].size = h.mem[x].size - gap
  <2>1. rest \in Dom(e)
    BY <1>12, <1>13, <1>14
  <2>2. block_next(h, x) # rest
    BY <1>1, <1>8, NextIs
  <2> QED
    BY <1>8, <1>9, <1>11, <1>12, <2>1, <2>2 DEF LinksOnly
<1>18. Loose(g, T, rest)
  BY <1>11, <1>12, <1>13, <1>15 DEF Loose
<1> QED
  BY <1>2, <1>5, <1>6, <1>16, <1>17, <1>18

-----------------------------------------------------------------------------
(* Rounding                                                                *)

\* A remainder and what it leaves.
LEMMA ModIs ==
    ASSUME NEW x \in Nat, NEW a \in Nat \ {0}
    PROVE  x % a \in Nat /\ x % a < a /\ x % a <= x /\ x - (x % a) \in Nat /\ (x < a => x % a = x)
<1> DEFINE q == x \div a
           m == x % a
           w == a * q
<1>1. q \in Int /\ m \in 0 .. a - 1 /\ x = a * q + m
  OBVIOUS
<1>2. q \in Nat /\ a * q <= x /\ x < a * q + a
  BY DivIs
<1>3. w \in Int
  BY <1>2
<1>4. x < a => w = 0
  <2>1. ASSUME x < a PROVE q < 1
    <3>1. x < a * 1
      BY <2>1
    <3> QED
      BY <3>1, DivBelow
  <2>2. q < 1 => q = 0
    BY <1>2
  <2>3. q = 0 => w = 0
    OBVIOUS
  <2> QED
    BY <2>1, <2>2, <2>3
<1>5. x = w + m /\ w <= x
  BY <1>1, <1>2
<1> HIDE DEF w, q, m
<1>6. m \in Nat /\ m < a /\ m <= x /\ x - m \in Nat /\ (x < a => m = x)
  BY <1>1, <1>3, <1>4, <1>5
<1> QED
  BY <1>6 DEF m

\* align_up answers the next multiple.
LEMMA AlignUpIs ==
    ASSUME NEW x \in Nat, NEW a \in Nat \ {0}, x + a <= 2 ^ SizeBits
    PROVE  LET y == align_up(x, a)
           IN  /\ y \in Nat /\ x <= y /\ y < x + a /\ y % a = 0
               /\ \E q \in Nat : y = a * q
<1> DEFINE W == 2 ^ SizeBits
           z == x + a - 1
           q == z \div a
           w == a * q
           y == align_up(x, a)
<1>1. W \in Nat
  BY Constants
<1>2. z \in Nat /\ z < W /\ W # 0
  BY <1>1
<1>3. z % W = z
  BY <1>1, <1>2, ModIs
<1>4. y = z - (z % a)
  BY <1>3 DEF align_up, size_t
<1>5. q \in Nat /\ w <= z /\ z < w + a
  BY <1>2, DivIs
<1>6. z % a = z - w
  <2> DEFINE m == z % a
  <2> HIDE DEF z
  <2>1. q \in Int /\ m \in 0 .. a - 1 /\ z = a * q + m
    BY <1>2
  <2>2. w \in Int
    BY <1>5
  <2>3. z = w + m
    BY <2>1
  <2> HIDE DEF w, q, m
  <2>4. m = z - w
    BY <1>2, <2>1, <2>2, <2>3
  <2> QED
    BY <2>4 DEF m
<1>7. w \in Int /\ w + 0 = w /\ 0 \in 0 .. a - 1 /\ q \in Int
  BY <1>5
<1>8. w % a = 0
  <2>1. (a * q + 0) % a = 0
    <3> HIDE DEF q
    <3> QED
      BY <1>7, ModUnique
  <2> QED
    BY <1>7, <2>1
<1>9. y = w
  <2> HIDE DEF w, y, q
  <2> QED
    BY <1>2, <1>4, <1>6, <1>7
<1>10. x <= w /\ w < x + a /\ w \in Nat
  <2> HIDE DEF w, q
  <2> QED
    BY <1>5, <1>7
<1> QED
  BY <1>5, <1>8, <1>9, <1>10

\* adjust_request_size answers 0 or a block's size that is large enough and
\* rounded up by less than ALIGN_SIZE.
LEMMA AdjustIs ==
    ASSUME NEW n \in Nat, n + ALIGN_SIZE <= 2 ^ SizeBits
    PROVE  LET a == adjust_request_size(n, ALIGN_SIZE)
           IN  /\ a \in Nat /\ a < block_size_max /\ Aligned(a)
               /\ a # 0 => /\ a >= 24 /\ n <= a
                           /\ a > 24 => a < n + ALIGN_SIZE
<1> DEFINE y == align_up(n, ALIGN_SIZE)
           a == adjust_request_size(n, ALIGN_SIZE)
<1>1. ALIGN_SIZE \in Nat \ {0} /\ block_size_max \in Nat /\ block_size_max > 24
  BY Constants, ConstantsAssumption DEF block_size_min, sizeof_BlockHeader, Word
<1>2. y \in Nat /\ n <= y /\ y < n + ALIGN_SIZE /\ y % ALIGN_SIZE = 0
  BY <1>1, AlignUpIs
<1>3. a = IF n = 0 \/ y >= block_size_max THEN 0 ELSE IF y > 24 THEN y ELSE 24
  BY DEF adjust_request_size, block_size_min, sizeof_BlockHeader, Word
<1>4. Aligned(0) /\ Aligned(24)
  BY Constants DEF Aligned
<1> HIDE DEF y, a
<1>5. Aligned(a)
  BY <1>2, <1>3, <1>4 DEF Aligned
<1> QED
  BY <1>1, <1>2, <1>3, <1>5 DEF a

-----------------------------------------------------------------------------
(* Alignments                                                              *)

\* Alignments are powers of two.
LEMMA AlignIs ==
    ASSUME NEW A \in Aligns
    PROVE  /\ A \in Nat \ {0}
           /\ A <= ALIGN_SIZE => A \in {1, 2, 4, 8}
           /\ A > ALIGN_SIZE => (\E w \in Nat : A = ALIGN_SIZE * w) /\ (A \in {8, 16, 32} \/ A >= 64)
<1>1. PICK k \in 0 .. SizeBits : A = 2 ^ k
  BY ConstantsAssumption
<1>2. SizeBits \in Nat /\ k \in Nat /\ k <= SizeBits + 1
  BY Widths
<1>3. A \in Nat \ {0}
  BY <1>1, <1>2, PowPositive
<1>4. 2 ^ 0 = 1 /\ 2 ^ 1 = 2 /\ 2 ^ 2 = 4 /\ 2 ^ 3 = 8 /\ 2 ^ 4 = 16 /\ 2 ^ 5 = 32 /\ 2 ^ 6 = 64
  OBVIOUS
<1>5. k >= 6 => A >= 64
  <2>1. ASSUME k >= 6 PROVE A >= 64
    <3>1. 2 ^ 6 <= 2 ^ k
      BY <1>2, <2>1, PowMonotone
    <3> QED
      BY <1>1, <1>3, <1>4, <3>1
  <2> QED
    BY <2>1
<1>6. k \in {0, 1, 2, 3, 4, 5} \/ k >= 6
  BY <1>2
<1>7. A \in {1, 2, 4, 8, 16, 32} \/ A >= 64
  BY <1>1, <1>4, <1>5, <1>6
<1>8. A > ALIGN_SIZE => \E w \in Nat : A = ALIGN_SIZE * w
  <2>1. ASSUME A > ALIGN_SIZE PROVE \E w \in Nat : A = ALIGN_SIZE * w
    <3> DEFINE l == ALIGN_SIZE_LOG2
               d == k - l
    <3>1. l \in Nat /\ l <= SizeBits + 1 /\ ALIGN_SIZE = 2 ^ l /\ ALIGN_SIZE \in Nat
      BY Widths, Constants DEF ALIGN_SIZE
    <3>2. k >= l
      <4>1. ASSUME k <= l PROVE FALSE
        <5>1. 2 ^ k <= 2 ^ l
          BY <1>2, <3>1, <4>1, PowMonotone
        <5> QED
          BY <1>1, <1>3, <2>1, <3>1, <5>1
      <4> QED
        BY <1>2, <3>1, <4>1
    <3>3. d \in Nat /\ l + d = k /\ l + d <= SizeBits + 1 /\ d \in 0 .. SizeBits + 1
      BY <1>2, <3>1, <3>2
    <3> HIDE DEF d, l
    <3>4. 2 ^ (l + d) = 2 ^ l * 2 ^ d
      BY <3>1, <3>3, PowSum
    <3>5. 2 ^ d \in Nat
      BY <3>3, PowPositive
    <3> QED
      BY <1>1, <3>1, <3>3, <3>4, <3>5
  <2> QED
    BY <2>1
<1> QED
  BY <1>3, <1>7, <1>8, Constants

\* A multiple stays as it is.
LEMMA AlignUpSame ==
    ASSUME NEW a \in Nat \ {0}, NEW q \in Nat, NEW x \in Nat, x = a * q, x + a <= 2 ^ SizeBits
    PROVE  align_up(x, a) = x
<1> DEFINE W == 2 ^ SizeBits
           z == x + a - 1
<1>1. W \in Nat /\ z \in Nat /\ z < W /\ W # 0
  BY Constants
<1>2. z % W = z
  BY <1>1, ModIs
<1>3. z % a = a - 1
  <2>1. a - 1 \in 0 .. a - 1 /\ q \in Int
    OBVIOUS
  <2>2. (a * q + (a - 1)) % a = a - 1
    BY <2>1, ModUnique
  <2>3. z = x + (a - 1)
    OBVIOUS
  <2> QED
    BY <2>2, <2>3
<1>4. align_up(x, a) = z - (z % a)
  BY <1>2 DEF align_up, size_t
<1> QED
  BY <1>1, <1>3, <1>4

\* A multiple of a multiple of ALIGN_SIZE is aligned.
LEMMA MultipleAligned ==
    ASSUME NEW A \in Nat, NEW w \in Nat, A = ALIGN_SIZE * w, NEW q \in Nat
    PROVE  Aligned(A * q) /\ A * q \in Nat
<1> DEFINE u == w * q
<1>1. ALIGN_SIZE \in Nat \ {0} /\ u \in Nat
  BY Constants
<1>2. A * q = ALIGN_SIZE * u
  <2> DEFINE s == ALIGN_SIZE
  <2>1. s \in Nat
    BY <1>1
  <2> HIDE DEF s
  <2>2. (s * w) * q = s * (w * q)
    BY <2>1
  <2> QED
    BY <2>2 DEF s
<1> HIDE DEF u
<1>3. 0 \in 0 .. ALIGN_SIZE - 1 /\ u \in Int
  BY <1>1
<1>4. (ALIGN_SIZE * u + 0) % ALIGN_SIZE = 0
  BY <1>1, <1>3, ModUnique
<1>5. ALIGN_SIZE * u \in Nat /\ ALIGN_SIZE * u + 0 = ALIGN_SIZE * u
  BY <1>1
<1> QED
  BY <1>2, <1>4, <1>5 DEF Aligned

\* The controller takes whole words at the start of the heap.
LEMMA HtfhSize ==
    /\ htfh_size \in Nat /\ htfh_size >= 32 /\ htfh_size % 8 = 0
    /\ FirstBlock = htfh_size - 8 /\ FirstBlock \in Nat /\ FirstBlock >= 24 /\ Aligned(FirstBlock)
<1> DEFINE z == size_t(36 + 4 * FL_INDEX_COUNT + 7)
           y == z - (z % 8)
           c == FL_INDEX_COUNT * SL_INDEX_COUNT
<1>1. FL_INDEX_COUNT \in Nat /\ FL_INDEX_COUNT >= 2 /\ SL_INDEX_COUNT \in Nat /\ SL_INDEX_COUNT >= 2
      /\ 2 ^ SizeBits \in Nat /\ 2 ^ SizeBits # 0
  <2>1. 2 ^ SizeBits # 0
    BY Constants, ConstantsAssumption DEF block_size_min, sizeof_BlockHeader, Word
  <2> QED
    BY <2>1, Constants, Widths
<1>2. z \in Nat
  BY <1>1, ModIs DEF size_t
<1> HIDE DEF z
<1>3. y \in Nat /\ y % 8 = 0
  BY <1>2
<1>4. c \in Nat /\ c >= 4
  <2>1. (FL_INDEX_COUNT - 2) * SL_INDEX_COUNT \in Nat
    BY <1>1
  <2>2. c = (FL_INDEX_COUNT - 2) * SL_INDEX_COUNT + 2 * SL_INDEX_COUNT
    BY <1>1
  <2> QED
    BY <1>1, <2>1, <2>2
<1>5. htfh_size = y + 8 * c
  <2>1. align_up(32 + 4 + 4 * FL_INDEX_COUNT, 8) = y
    <3>1. 32 + 4 + 4 * FL_INDEX_COUNT + 8 - 1 = 36 + 4 * FL_INDEX_COUNT + 7
      BY <1>1
    <3> QED
      BY <3>1 DEF align_up, z
  <2>2. 8 * FL_INDEX_COUNT * SL_INDEX_COUNT = 8 * c
    BY <1>1
  <2> QED
    BY <2>1, <2>2 DEF htfh_size, sizeof_BlockHeader, Word
<1> HIDE DEF y, c
<1>6. htfh_size \in Nat /\ htfh_size >= 32 /\ htfh_size % 8 = 0
  BY <1>3, <1>4, <1>5
<1>7. FirstBlock = htfh_size - 8
  BY DEF FirstBlock, block_header_overhead, Word
<1>8. Aligned(FirstBlock)
  <2>1. CASE ALIGN_SIZE = 4
    BY <1>6, <1>7, <2>1 DEF Aligned
  <2>2. CASE ALIGN_SIZE = 8
    BY <1>6, <1>7, <2>2 DEF Aligned
  <2> QED
    BY <2>1, <2>2, Constants
<1> QED
  BY <1>6, <1>7, <1>8

\* Multiples of ALIGN_SIZE next to each other.
LEMMA Fours ==
    ASSUME NEW x \in Int, Aligned(x)
    PROVE  x % 4 = 0
<1>1. CASE ALIGN_SIZE = 4
  BY <1>1 DEF Aligned
<1>2. CASE ALIGN_SIZE = 8
  BY <1>2 DEF Aligned
<1> QED
  BY <1>1, <1>2, Constants

\* The gap in front of an aligned address: none, or large enough for a block.
LEMMA GapIs ==
    ASSUME NEW A \in Aligns, NEW ptr \in Nat, Aligned(ptr), ptr + 2 * A + 62 <= 2 ^ SizeBits
    PROVE  LET gap == memalign_gap(ptr, A)
           IN  /\ gap \in Nat /\ Aligned(gap)
               /\ A <= ALIGN_SIZE => gap = 0
               /\ (ptr + gap) % A = 0
               /\ gap # 0 => gap >= 32 /\ gap <= A + 28
<1> DEFINE gap == memalign_gap(ptr, A)
           v == align_up(ptr, A)
           d == v - ptr
           offset == IF 32 - d > A THEN 32 - d ELSE A
           y == align_up(v + offset, A)
<1>1. A \in Nat \ {0} /\ 2 ^ SizeBits \in Nat /\ ALIGN_SIZE \in {4, 8}
  BY AlignIs, Constants
<1>2. v \in Nat /\ ptr <= v /\ v < ptr + A /\ v % A = 0 /\ \E q \in Nat : v = A * q
  <2>1. ptr + A <= 2 ^ SizeBits
    BY <1>1
  <2> QED
    BY <1>1, <2>1, AlignUpIs
<1>3. d \in Nat /\ d < A /\ ptr + d = v
  BY <1>1, <1>2
<1>4. gap = IF d # 0 /\ d < 32 THEN y - ptr ELSE d
  BY DEF memalign_gap, gap_minimum, sizeof_BlockHeader, Word
<1>5. CASE A <= ALIGN_SIZE
  <2>1. A \in {1, 2, 4, 8}
    BY <1>5, AlignIs
  <2>2. ptr % A = 0
    <3>1. ptr % 4 = 0
      BY Fours
    <3>2. A = 8 => ALIGN_SIZE = 8
      BY <1>1, <1>5
    <3>3. A = 8 => ptr % A = 0
      BY <3>2 DEF Aligned
    <3>4. CASE A = 1
      BY <3>4
    <3>5. CASE A = 2
      BY <3>1, <3>5
    <3>6. CASE A = 4
      BY <3>1, <3>6
    <3> QED
      BY <2>1, <3>3, <3>4, <3>5, <3>6
  <2>3. ptr = A * (ptr \div A) /\ ptr \div A \in Nat
    <3>1. CASE A = 1
      BY <2>2, <3>1
    <3>2. CASE A = 2
      BY <2>2, <3>2
    <3>3. CASE A = 4
      BY <2>2, <3>3
    <3>4. CASE A = 8
      BY <2>2, <3>4
    <3> QED
      BY <2>1, <3>1, <3>2, <3>3, <3>4
  <2>4. v = ptr
    <3>1. ptr + A <= 2 ^ SizeBits
      BY <1>1
    <3> HIDE DEF v
    <3>2. align_up(ptr, A) = ptr
      BY <1>1, <2>3, <3>1, AlignUpSame
    <3> QED
      BY <3>2 DEF v
  <2>5. d = 0 /\ gap = 0
    BY <1>4, <2>4
  <2>6. Aligned(0) /\ ptr + 0 = ptr
    BY Constants DEF Aligned
  <2> QED
    BY <2>2, <2>5, <2>6
<1>6. CASE A > ALIGN_SIZE
  <2>1. PICK w \in Nat : A = ALIGN_SIZE * w
    BY <1>6, AlignIs
  <2>2. Aligned(v)
    <3>1. PICK q \in Nat : v = A * q
      BY <1>2
    <3> HIDE DEF v
    <3>2. Aligned(A * q)
      BY <1>1, <2>1, MultipleAligned
    <3> QED
      BY <3>1, <3>2, Zenon
  <2>3. Aligned(d)
    BY <1>2, <2>2, AlignedIs
  <2>4. CASE ~(d # 0 /\ d < 32)
    <3>1. gap = d
      BY <1>4, <2>4
    <3>2. gap # 0 => gap >= 32 /\ gap <= A + 28
      BY <1>1, <1>3, <2>4, <3>1
    <3>3. ~(A <= ALIGN_SIZE)
      BY <1>1, <1>6
    <3> HIDE DEF gap, d, v
    <3> QED
      BY <1>2, <1>3, <2>3, <3>1, <3>2, <3>3 DEF gap
  <2>5. CASE d # 0 /\ d < 32
    <3>1. gap = y - ptr
      BY <1>4, <2>5
    <3>2. offset \in Nat /\ offset >= 32 - d /\ offset >= A /\ (offset = A \/ offset = 32 - d) /\ offset <= A + 31
      BY <1>1, <1>3, <2>5
    <3> HIDE DEF d, offset, gap
    <3>3. v + offset + A <= 2 ^ SizeBits /\ v + offset \in Nat
      BY <1>1, <1>2, <1>3, <2>5, <3>2
    <3>4. y \in Nat /\ v + offset <= y /\ y < v + offset + A /\ y % A = 0 /\ \E q \in Nat : y = A * q
      BY <1>1, <3>3, AlignUpIs
    <3>5. Aligned(y)
      <4>1. PICK r \in Nat : y = A * r
        BY <3>4
      <4>2. Aligned(A * r)
        BY <1>1, <2>1, MultipleAligned
      <4> QED
        BY <4>1, <4>2, Zenon
    <3>6. gap \in Int /\ Aligned(gap) /\ ptr + gap = y
      <4> HIDE DEF y, v
      <4>1. gap \in Int /\ ptr + gap = y
        BY <3>1, <3>4
      <4>2. Aligned(y - ptr)
        BY <3>4, <3>5, AlignedIs
      <4> QED
        BY <3>1, <4>1, <4>2
    <3>7. gap >= 32
      BY <1>2, <1>3, <3>1, <3>2, <3>4
    <3>8. gap <= A + 31
      <4>1. CASE offset = A
        <5>1. PICK q \in Nat : v = A * q
          BY <1>2
        <5>2. v + A = A * (q + 1) /\ q + 1 \in Nat
          BY <1>1, <5>1
        <5>3. v + A \in Nat /\ v + A + A <= 2 ^ SizeBits
          BY <1>2, <3>3, <4>1
        <5> HIDE DEF y, v
        <5>4. align_up(v + A, A) = v + A
          BY <1>1, <5>2, <5>3, AlignUpSame
        <5>5. y = v + A
          BY <4>1, <5>4 DEF y
        <5> QED
          BY <1>1, <1>2, <1>3, <2>5, <3>1, <5>5
      <4>2. CASE offset = 32 - d
        BY <1>1, <1>2, <1>3, <2>5, <3>1, <3>4, <4>2
      <4> QED
        BY <3>2, <4>1, <4>2
    <3>9. gap <= A + 28
      <4>1. Aligned(A)
        <5>1. A * 1 = A /\ 1 \in Nat
          BY <1>1
        <5> QED
          BY <1>1, <2>1, <5>1, MultipleAligned
      <4>2. A % 4 = 0 /\ gap % 4 = 0
        BY <1>1, <3>6, <4>1, Fours
      <4> QED
        BY <1>1, <3>6, <3>8, <4>2
    <3>10. (ptr + gap) % A = 0 /\ ~(A <= ALIGN_SIZE) /\ gap \in Nat
      BY <1>1, <1>6, <3>4, <3>6, <3>7
    <3> QED
      BY <3>6, <3>7, <3>9, <3>10 DEF gap
  <2> QED
    BY <2>4, <2>5
<1> QED
  BY <1>1, <1>5, <1>6

\* What htfh_memalign looks for has room for any such gap.
LEMMA MemalignSizeIs ==
    ASSUME NEW A \in Aligns, NEW a \in Nat, a < block_size_max, Aligned(a), a # 0 => a >= 24
    PROVE  LET S == memalign_size(A, a)
           IN  /\ S \in Nat /\ S < block_size_max /\ (S # 0 => S >= a)
               /\ a = 0 => S = 0
               /\ A > ALIGN_SIZE /\ S # 0 => S >= a + A + 32 /\ (A >= 16 => S >= A + 60)
<1> DEFINE S == memalign_size(A, a)
           n == a + A + 32
           y == align_up(n, A)
<1>1. A \in Nat \ {0} /\ 2 ^ SizeBits \in Nat /\ ALIGN_SIZE \in {4, 8} /\ block_size_max \in Nat
  BY AlignIs, Constants
<1>2. CASE ~(a # 0 /\ A > ALIGN_SIZE)
  <2>1. S = a
    BY <1>2 DEF memalign_size
  <2> QED
    BY <1>2, <2>1
<1>3. CASE a # 0 /\ A > ALIGN_SIZE
  <2>1. n \in Nat /\ n # 0
    BY <1>1
  <2>2. n + A <= 2 ^ SizeBits
    <3>1. htfh_size \in Nat
      BY HtfhSize
    <3>2. htfh_size + block_size_max + 2 * A + 2 * 32 <= 2 ^ SizeBits
      BY AlignsAssumption DEF sizeof_BlockHeader, Word
    <3> QED
      BY <1>1, <3>1, <3>2
  <2>3. y \in Nat /\ n <= y /\ y < n + A /\ \E q \in Nat : y = A * q
    BY <1>1, <2>1, <2>2, AlignUpIs
  <2>4. S = IF y >= block_size_max THEN 0 ELSE IF y > 24 THEN y ELSE 24
    BY <1>3, <2>1 DEF memalign_size, adjust_request_size, gap_minimum, block_size_min, sizeof_BlockHeader, Word
  <2>5. y >= a + A + 32 /\ a >= 24 /\ y > 24
    BY <1>1, <1>3, <2>1, <2>3
  <2>6. A >= 16 => y >= A + 60
    <3>1. PICK q \in Nat : y = A * q
      BY <2>3
    <3>2. A \in {8, 16, 32} \/ A >= 64
      BY <1>3, AlignIs
    <3> HIDE DEF y, n
    <3>3. CASE A = 16
      BY <2>3, <2>5, <3>1, <3>3
    <3>4. CASE A = 32
      BY <2>3, <2>5, <3>1, <3>4
    <3>5. CASE A >= 64
      <4>1. q >= 2
        <5>1. q = 0 => y = 0
          BY <1>1, <3>1
        <5>2. q = 1 => y = A
          BY <1>1, <3>1
        <5> QED
          BY <1>1, <2>3, <2>5, <5>1, <5>2
      <4>2. A * q >= A * 2
        <5>1. q - 2 \in Nat
          BY <4>1
        <5>2. A * (q - 2) \in Nat
          BY <1>1, <5>1
        <5>3. A * q = A * 2 + A * (q - 2)
          BY <1>1, <5>1
        <5> QED
          BY <1>1, <5>2, <5>3
      <4> QED
        BY <1>1, <2>3, <3>1, <3>5, <4>2
    <3>6. CASE A = 8
      BY <3>6
    <3> QED
      BY <3>2, <3>3, <3>4, <3>5, <3>6
  <2> HIDE DEF y, n
  <2> QED
    BY <1>1, <1>3, <2>3, <2>4, <2>5, <2>6
<1> QED
  BY <1>2, <1>3

-----------------------------------------------------------------------------
(* What malloc and memalign answer                                         *)

\* Nothing, and the heap is as it was, or a block of at least n bytes that was
\* not in use, and the other blocks in use are as they were.
Granted(h, m, T, n) ==
    \/ m = [h |-> h, ptr |-> NULL]
    \/ /\ m.ptr \in Nat /\ m.ptr # NULL /\ HeapInv(m.h, T)
       /\ m.ptr - 16 \notin UsedOf(h, T) /\ UsedOf(m.h, T) = UsedOf(h, T) \cup {m.ptr - 16}
       /\ \A a \in UsedOf(h, T) : m.h.mem[a].size = h.mem[a].size
       /\ m.h.mem[m.ptr - 16].size \in Nat /\ m.h.mem[m.ptr - 16].size >= n

\* The end of malloc and memalign, once a block was found.
LEMMA AllocatedIs ==
    ASSUME NEW h, NEW T, NEW e, NEW x, Loose(e, T, x), block_next(e, x) \notin FreeOf(e), SameUsed(h, e, T),
           NEW size \in Nat, size >= 24, Aligned(size), size <= e.mem[x].size, NEW n \in Nat, n <= size
    PROVE  LET m == Allocated([h |-> e, block |-> x], size)
           IN  Granted(h, m, T, n) /\ m.ptr = x + 16
<1> DEFINE m == Allocated([h |-> e, block |-> x], size)
           g == controller_block_mark_used(e, x, size)
<1>1. x \in Nat
  BY TagsType DEF Loose
<1>2. m = [h |-> g, ptr |-> x + 16]
  BY <1>1 DEF Allocated, NULL, block_to_ptr, block_start_offset, Word
<1>3. /\ HeapInv(g, T) /\ UsedOf(g, T) = UsedOf(e, T) \cup {x} /\ x \notin UsedOf(e, T)
      /\ \A a \in UsedOf(e, T) : g.mem[a].size = e.mem[a].size
      /\ g.mem[x].size \in Nat /\ g.mem[x].size >= size
  BY MarkUsedKeeps
<1> HIDE DEF g, m
<1>4. m.h = g /\ m.ptr = x + 16 /\ m.ptr - 16 = x /\ m.ptr \in Nat /\ m.ptr # NULL
  BY <1>1, <1>2 DEF NULL
<1>5. g.mem[x].size >= n
  BY <1>3
<1>6. Granted(h, m, T, n)
  BY <1>3, <1>4, <1>5 DEF Granted, SameUsed
<1> QED
  BY <1>4, <1>6 DEF m

\* htfh_malloc answers NULL or a block of its own,
LEMMA MallocKeeps ==
    ASSUME NEW h, NEW T, HeapInv(h, T), NEW n \in Nat, n + ALIGN_SIZE <= 2 ^ SizeBits
    PROVE  Granted(h, htfh_malloc(h, n), T, n)
<1> DEFINE a == adjust_request_size(n, ALIGN_SIZE)
           f == controller_block_find_free(h, a)
           m == Allocated(f, a)
<1>1. htfh_malloc(h, n) = m
  BY DEF htfh_malloc
<1>2. /\ a \in Nat /\ a < block_size_max /\ Aligned(a)
      /\ a # 0 => a >= 24 /\ n <= a
  BY AdjustIs
<1> HIDE DEF a
<1>3. \/ f = [h |-> h, block |-> NULL]
      \/ /\ f.block # NULL /\ Loose(f.h, T, f.block) /\ SameUsed(h, f.h, T)
         /\ f.h.mem[f.block].size >= a /\ block_next(f.h, f.block) \notin FreeOf(f.h) /\ a # 0
  BY <1>2, FindFree
<1>4. f = [h |-> f.h, block |-> f.block]
  BY DEF controller_block_find_free
<1> HIDE DEF f
<1>5. CASE f = [h |-> h, block |-> NULL]
  <2>1. m = [h |-> h, ptr |-> NULL]
    BY <1>5 DEF Allocated
  <2> QED
    BY <1>1, <2>1 DEF Granted
<1>6. CASE f # [h |-> h, block |-> NULL]
  <2> DEFINE e == f.h
             x == f.block
  <2>1. x \in Dom(e) \ {T} /\ Tags(e, T)
    BY <1>3, <1>6, TagsType DEF Loose
  <2>2. e.mem[x].size \in Nat
    BY <2>1, NextIs
  <2>3. a <= e.mem[x].size /\ a >= 24 /\ n <= a
    BY <1>2, <1>3, <1>6, <2>2
  <2>4. Loose(e, T, x) /\ block_next(e, x) \notin FreeOf(e) /\ SameUsed(h, e, T)
    BY <1>3, <1>6
  <2> HIDE DEF e, x
  <2>5. Granted(h, Allocated([h |-> e, block |-> x], a), T, n)
    BY <1>2, <2>3, <2>4, AllocatedIs
  <2> QED
    BY <1>1, <1>4, <2>5 DEF e, x
<1> QED
  BY <1>5, <1>6

\* and htfh_memalign one that is aligned too, from four times ALIGN_SIZE on.
LEMMA MemalignKeeps ==
    ASSUME NEW h, NEW T, HeapInv(h, T), NEW A \in Aligns, NEW n \in Nat, n + ALIGN_SIZE <= 2 ^ SizeBits
    PROVE  LET m == htfh_memalign(h, A, n)
           IN  /\ Granted(h, m, T, n)
               /\ m.ptr # NULL /\ A >= 4 * ALIGN_SIZE => m.ptr % A = 0
<1> DEFINE a == adjust_request_size(n, ALIGN_SIZE)
           S == memalign_size(A, a)
           f == controller_block_find_free(h, S)
           m == MemalignFrom(f, A, a)
<1>1. htfh_memalign(h, A, n) = m
  BY DEF htfh_memalign
<1>2. /\ a \in Nat /\ a < block_size_max /\ Aligned(a)
      /\ a # 0 => a >= 24 /\ n <= a
  BY AdjustIs
<1> HIDE DEF a
<1>3. /\ S \in Nat /\ S < block_size_max /\ (S # 0 => S >= a)
      /\ a = 0 => S = 0
      /\ A > ALIGN_SIZE /\ S # 0 => S >= a + A + 32 /\ (A >= 16 => S >= A + 60)
  BY <1>2, MemalignSizeIs
<1> HIDE DEF S
<1>4. \/ f = [h |-> h, block |-> NULL]
      \/ /\ f.block # NULL /\ Loose(f.h, T, f.block) /\ SameUsed(h, f.h, T)
         /\ f.h.mem[f.block].size >= S /\ block_next(f.h, f.block) \notin FreeOf(f.h) /\ S # 0
         /\ ~f.h.mem[f.block].prev_is_free
  BY <1>3, FindFree
<1>5. f = [h |-> f.h, block |-> f.block]
  BY DEF controller_block_find_free
<1> HIDE DEF f
<1>6. CASE f = [h |-> h, block |-> NULL]
  <2>1. m = [h |-> h, ptr |-> NULL]
    BY <1>6 DEF MemalignFrom, Allocated
  <2> QED
    BY <1>1, <2>1 DEF Granted
<1>7. CASE f # [h |-> h, block |-> NULL]
  <2> DEFINE e == f.h
             x == f.block
             ptr == x + 16
             gap == memalign_gap(ptr, A)
  <2>1. x \in Dom(e) \ {T} /\ Tags(e, T) /\ x \in Nat /\ Loose(e, T, x) /\ SameUsed(h, e, T)
        /\ block_next(e, x) \notin FreeOf(e) /\ ~e.mem[x].prev_is_free
    BY <1>4, <1>7, TagsType DEF Loose
  <2>2. e.mem[x].size \in Nat /\ x + 32 <= T /\ T \in Nat
    <3>1. e.mem[x].size \in Nat /\ e.mem[x].size >= 24 /\ block_next(e, x) = x + 8 + e.mem[x].size
          /\ block_next(e, x) <= T
      BY <2>1, NextIs
    <3>2. T \in Nat
      BY <2>1, TagsType
    <3> HIDE DEF e, x
    <3> QED
      BY <2>1, <3>1, <3>2
  <2>3. S <= e.mem[x].size /\ S # 0 /\ a # 0 /\ a >= 24 /\ n <= a /\ a <= S
    BY <1>2, <1>3, <1>4, <1>7, <2>2
  <2>a. f = [h |-> e, block |-> x] /\ x # NULL
    BY <1>4, <1>5, <1>7
  <2> HIDE DEF e, x
  <2>4. A \in Nat \ {0} /\ ALIGN_SIZE \in {4, 8}
    BY AlignIs, Constants
  <2>5. Aligned(ptr)
    <3>1. Aligned(x)
      BY <2>1 DEF Tags
    <3>2. Aligned(16)
      BY Constants DEF Aligned
    <3> QED
      BY <2>1, <3>1, <3>2, AlignedIs
  <2>6. ptr + 2 * A + 62 <= 2 ^ SizeBits /\ ptr \in Nat
    <3>1. T < FirstBlock + 8 + block_size_max
      BY <2>1 DEF Tags, Ends
    <3>2. FirstBlock = htfh_size - 8 /\ htfh_size \in Nat /\ block_size_max \in Nat /\ 2 ^ SizeBits \in Nat
      BY HtfhSize, Constants
    <3>3. htfh_size + block_size_max + 2 * A + 2 * 32 <= 2 ^ SizeBits
      BY AlignsAssumption DEF sizeof_BlockHeader, Word
    <3> QED
      BY <2>1, <2>2, <2>4, <3>1, <3>2, <3>3
  <2>7. /\ gap \in Nat /\ Aligned(gap) /\ (A <= ALIGN_SIZE => gap = 0) /\ (ptr + gap) % A = 0
        /\ gap # 0 => gap >= 32 /\ gap <= A + 28
    BY <2>5, <2>6, GapIs
  <2>8. memalign_gap(block_to_ptr(x), A) = gap
    BY DEF block_to_ptr, block_start_offset, Word
  <2>9. Granted(h, Allocated([h |-> e, block |-> x], a), T, n) /\ Allocated([h |-> e, block |-> x], a).ptr = ptr
    <3>1. a <= e.mem[x].size
      BY <1>2, <1>3, <2>2, <2>3
    <3> QED
      BY <1>2, <2>1, <2>3, <3>1, AllocatedIs
  <2> HIDE DEF gap
  <2>10. CASE gap = 0
    <3>1. m = Allocated(f, a)
      BY <2>8, <2>10, <2>a DEF MemalignFrom
    <3>2. ptr % A = 0
      BY <2>6, <2>7, <2>10
    <3> QED
      BY <1>1, <2>9, <2>a, <3>1, <3>2
  <2>11. CASE gap # 0
    <3> DEFINE r == LeadingRest(e, x, gap)
               k == controller_block_trim_free_leading(e, x, gap)
    <3>1. m = Allocated([h |-> k, block |-> r], a)
      BY <2>8, <2>11, <2>a DEF MemalignFrom, MemalignTrimmed
    <3>2. A > ALIGN_SIZE /\ gap >= 32 /\ gap <= A + 28
      BY <2>4, <2>7, <2>11
    <3>3. S >= a + A + 32 /\ (A >= 16 => S >= A + 60)
      BY <1>3, <2>3, <3>2
    <3>4. CASE gap + 32 <= e.mem[x].size
      <4>1. /\ r = x + gap /\ Loose(k, T, r) /\ block_next(k, r) \notin FreeOf(k)
            /\ SameUsed(e, k, T) /\ k.mem[r].size = e.mem[x].size - gap
        BY <2>1, <2>7, <3>2, <3>4, LeadingKeeps
      <4>2. a <= k.mem[r].size
        BY <1>2, <1>3, <2>2, <2>3, <2>4, <2>7, <3>2, <3>3, <4>1
      <4>3. SameUsed(h, k, T)
        BY <2>1, <4>1 DEF SameUsed
      <4> HIDE DEF r, k
      <4>4. Granted(h, Allocated([h |-> k, block |-> r], a), T, n)
            /\ Allocated([h |-> k, block |-> r], a).ptr = r + 16
        BY <1>2, <2>3, <4>1, <4>2, <4>3, AllocatedIs
      <4>5. r + 16 = ptr + gap
        BY <2>1, <2>7, <4>1
      <4> QED
        BY <1>1, <2>7, <3>1, <4>4, <4>5
    <3>5. CASE ~(gap + 32 <= e.mem[x].size)
      <4>1. ~block_can_split(e, x, gap)
        BY <2>2, <2>7, <3>5 DEF block_can_split, sizeof_BlockHeader, Word
      <4>2. r = x /\ k = e
        BY <4>1 DEF LeadingRest, controller_block_trim_free_leading
      <4>3. ~(A >= 4 * ALIGN_SIZE)
        BY <1>3, <2>2, <2>3, <2>4, <2>7, <3>2, <3>3, <3>5
      <4> QED
        BY <1>1, <2>9, <3>1, <4>2, <4>3
    <3> QED
      BY <3>4, <3>5
  <2> QED
    BY <2>10, <2>11
<1> QED
  BY <1>6, <1>7

-----------------------------------------------------------------------------
(* The heap without a pool, and with a new one                             *)

\* A new controller has empty lists and no block,
LEMMA NewIs ==
    /\ HeapType(controller_new) /\ Dom(controller_new) = {} /\ Bitmaps(controller_new)
    /\ Index(controller_new, {}) /\ \A c \in Classes : controller_new.blocks[c] = 0
<1> DEFINE m == [a \in {} |-> NULL]
           bs == [c \in FLs \X SLs |-> block_null]
           sl == [fl \in FLs |-> {}]
<1>1. /\ m \in [{} -> HeaderT] /\ DOMAIN m = {} /\ bs \in [Classes -> Int] /\ sl \in [FLs -> SUBSET SLs]
      /\ (\A c \in Classes : bs[c] = 0) /\ (\A fl \in FLs : sl[fl] = {})
  BY DEF Classes, block_null
<1>2. /\ controller_new.mem = m /\ controller_new.blocks = bs
      /\ controller_new.fl_bitmap = {} /\ controller_new.sl_bitmap = sl
  BY DEF controller_new
<1>3. controller_new = [mem |-> m, blocks |-> bs, fl_bitmap |-> {}, sl_bitmap |-> sl]
  BY DEF controller_new
<1> HIDE DEF m, bs, sl
<1>4. Dom(controller_new) = {}
  BY <1>1, <1>2 DEF Dom
<1>5. HeapType(controller_new)
  <2>1. controller_new \in Heaps({})
    BY <1>1, <1>3 DEF Heaps
  <2> QED
    BY <1>4, <2>1 DEF HeapType
<1>6. \A c \in Classes : controller_new.blocks[c] = 0
  BY <1>1, <1>2
<1>7. Bitmaps(controller_new)
  <2>1. \A c \in Classes : c[1] \in FLs
    BY DEF Classes
  <2> QED
    BY <1>1, <1>2, <1>6, <2>1 DEF Bitmaps
<1>8. ASSUME NEW c \in Classes PROVE IsListed(controller_new, c, Members(controller_new, {}, c))
  <2> DEFINE s == [i \in 1 .. 0 |-> 0]
  <2>1. Members(controller_new, {}, c) = {}
    BY DEF Members
  <2>2. 1 .. 0 = {} /\ s \in [1 .. 0 -> {}]
    OBVIOUS
  <2>3. Listed(controller_new, c, {}, s, 0)
    BY <1>6, <2>2 DEF Listed, block_null
  <2> QED
    BY <2>1, <2>3 DEF IsListed
<1>9. Index(controller_new, {})
  BY <1>4, <1>7, <1>8 DEF Index
<1> QED
  BY <1>4, <1>5, <1>6, <1>7, <1>9

\* so nothing is found in it
LEMMA EmptyFind ==
    ASSUME NEW size \in Nat, size < block_size_max
    PROVE  controller_block_find_free(controller_new, size) = [h |-> controller_new, block |-> NULL]
<1>1. SuitableClass(controller_new, size) = NoClass
  BY NewIs, SuitableIs
<1> QED
  BY <1>1 DEF controller_block_find_free

\* and every call answers NULL.
LEMMA EmptyGrants ==
    ASSUME NEW n \in Nat, n + ALIGN_SIZE <= 2 ^ SizeBits
    PROVE  /\ htfh_malloc(controller_new, n) = [h |-> controller_new, ptr |-> NULL]
           /\ \A A \in Aligns : htfh_memalign(controller_new, A, n) = [h |-> controller_new, ptr |-> NULL]
<1> DEFINE a == adjust_request_size(n, ALIGN_SIZE)
<1>1. a \in Nat /\ a < block_size_max /\ Aligned(a) /\ (a # 0 => a >= 24)
  BY AdjustIs
<1>2. htfh_malloc(controller_new, n) = Allocated(controller_block_find_free(controller_new, a), a)
  BY DEF htfh_malloc
<1>3. \A A \in Aligns : htfh_memalign(controller_new, A, n) =
                           MemalignFrom(controller_block_find_free(controller_new, memalign_size(A, a)), A, a)
  BY DEF htfh_memalign
<1> HIDE DEF a
<1>4. htfh_malloc(controller_new, n) = [h |-> controller_new, ptr |-> NULL]
  BY <1>1, <1>2, EmptyFind DEF Allocated
<1>5. ASSUME NEW A \in Aligns PROVE htfh_memalign(controller_new, A, n) = [h |-> controller_new, ptr |-> NULL]
  <2>1. memalign_size(A, a) \in Nat /\ memalign_size(A, a) < block_size_max
    BY <1>1, MemalignSizeIs
  <2>2. controller_block_find_free(controller_new, memalign_size(A, a)) = [h |-> controller_new, block |-> NULL]
    BY <2>1, EmptyFind
  <2> QED
    BY <1>3, <2>2 DEF MemalignFrom, Allocated
<1> QED
  BY <1>4, <1>5

\* htfh_add_pool leaves one free block in front of the empty one.
LEMMA PoolKeeps ==
    ASSUME NEW bytes \in HeapSizes
    PROVE  LET g == htfh_add_pool(bytes)
           IN  g = controller_new \/ \E T : HeapInv(g, T) /\ UsedOf(g, T) = {}
<1> DEFINE n == pool_bytes(bytes)
           F == FirstBlock
           T == F + n + 8
           D == {F, T}
           m == [a \in D |-> IF a = F THEN Header(n, TRUE, FALSE, NULL) ELSE Header(0, FALSE, TRUE, F)]
           e == WithMem(controller_new, m)
           g == controller_block_insert(e, F)
<1>1. n \in Nat /\ Aligned(n) /\ n # block_size_max
  <2> DEFINE i == bytes - htfh_size - 16
             z == size_t(i)
  <2>1. bytes \in Nat /\ htfh_size \in Nat /\ 2 ^ SizeBits \in Nat \ {0} /\ ALIGN_SIZE \in {4, 8}
    <3>1. 2 ^ SizeBits # 0
      BY Constants, ConstantsAssumption DEF block_size_min, sizeof_BlockHeader, Word
    <3> QED
      BY <3>1, HtfhSize, Constants, ConstantsAssumption
  <2>2. i \in Int
    BY <2>1
  <2>3. z \in Nat
    <3> HIDE DEF i
    <3> QED
      BY <2>1, <2>2 DEF size_t
  <2>4. n = z - (z % ALIGN_SIZE)
    BY DEF pool_bytes, align_down, htfh_pool_overhead, block_header_overhead, Word
  <2> HIDE DEF z, n
  <2>5. n \in Nat /\ Aligned(n)
    <3>1. CASE ALIGN_SIZE = 4
      BY <2>3, <2>4, <3>1 DEF Aligned
    <3>2. CASE ALIGN_SIZE = 8
      BY <2>3, <2>4, <3>2 DEF Aligned
    <3> QED
      BY <2>1, <3>1, <3>2
  <2>6. n # block_size_max
    BY HeapSizesAssumption DEF n
  <2> QED
    BY <2>5, <2>6
<1>2. F \in Nat /\ F >= 24 /\ Aligned(F) /\ block_size_max \in Nat
  BY HtfhSize, Constants
<1>a. \/ htfh_add_pool(bytes) = controller_new
      \/ /\ n >= 24 /\ n <= block_size_max
         /\ htfh_add_pool(bytes) = controller_block_insert([controller_new EXCEPT !.mem = m], F)
  <2> DEFINE last == F + n + block_header_overhead
             w == [a \in {F, last} |-> IF a = F THEN Header(n, TRUE, FALSE, NULL) ELSE Header(0, FALSE, TRUE, F)]
  <2>a. htfh_add_pool(bytes) = IF n < block_size_min \/ n > block_size_max THEN controller_new
            ELSE controller_block_insert([controller_new EXCEPT !.mem = w], F)
    BY Zenon DEF htfh_add_pool
  <2>b. block_size_min = 24 /\ block_header_overhead = 8
    BY DEF block_header_overhead, block_size_min, sizeof_BlockHeader, Word
  <2>c. last = T
    <3> HIDE DEF n, F
    <3> QED
      BY <1>1, <1>2, <2>b
  <2> HIDE DEF last
  <2>d. w = m
    BY <2>c, Zenon
  <2> HIDE DEF w, m
  <2>1. htfh_add_pool(bytes) = IF n < 24 \/ n > block_size_max THEN controller_new
            ELSE controller_block_insert([controller_new EXCEPT !.mem = m], F)
    BY <2>a, <2>b, <2>d, Zenon
  <2> QED
    BY <1>1, <1>2, <2>1
<1> SUFFICES ASSUME n >= 24, n <= block_size_max,
                    htfh_add_pool(bytes) = controller_block_insert([controller_new EXCEPT !.mem = m], F)
             PROVE  \E U : HeapInv(htfh_add_pool(bytes), U) /\ UsedOf(htfh_add_pool(bytes), U) = {}
  BY <1>a
<1>b. n >= 24 /\ n < block_size_max
  BY <1>1, <1>2
<1>c. m[F] = Header(n, TRUE, FALSE, NULL)
  BY DEF m
<1> HIDE DEF n, F
<1>3. T \in Nat /\ F < T /\ F # T /\ T = F + 8 + n /\ D \in SUBSET (Nat \ {0})
  BY <1>1, <1>2
<1>4. htfh_add_pool(bytes) = g
  <2>1. HeapType(controller_new)
    BY NewIs
  <2> HIDE DEF m
  <2>2. [controller_new EXCEPT !.mem = m] = WithMem(controller_new, m)
    BY <2>1 DEF HeapType, Heaps, WithMem
  <2> QED
    BY <2>2
<1>5. /\ m[F] = [size |-> n, is_free |-> TRUE, prev_is_free |-> FALSE, prev_phys_block |-> NULL,
                 next_free |-> NULL, prev_free |-> NULL]
      /\ m[T] = [size |-> 0, is_free |-> FALSE, prev_is_free |-> TRUE, prev_phys_block |-> F,
                 next_free |-> NULL, prev_free |-> NULL]
  <2>1. m[T] = Header(0, FALSE, TRUE, F)
    BY <1>3
  <2> HIDE DEF m
  <2> QED
    BY <1>c, <2>1 DEF Header
<1>6. NULL \in Int
  BY DEF NULL
<1>d. m = [a \in D |-> m[a]]
  OBVIOUS
<1> HIDE DEF m
<1>7. m[F] \in HeaderT /\ m[T] \in HeaderT
  BY <1>1, <1>2, <1>5, <1>6 DEF HeaderT
<1>8. m \in [D -> HeaderT]
  BY <1>7, <1>d
<1>9. HeapType(e) /\ Dom(e) = D /\ e.mem = m /\ SameLists(controller_new, e)
  BY <1>3, <1>8, NewIs, WithMemIs
<1> HIDE DEF e
<1>10. /\ F \in Dom(e) /\ T \in Dom(e)
       /\ e.mem[F].size = n /\ e.mem[F].is_free /\ ~e.mem[F].prev_is_free
       /\ e.mem[T].size = 0 /\ ~e.mem[T].is_free /\ e.mem[T].prev_is_free /\ e.mem[T].prev_phys_block = F
  BY <1>5, <1>9
<1>11. block_next(e, F) = T
  <2>1. block_next(e, F) = F + 8 + e.mem[F].size
    BY <1>9, <1>10, HeaderTypes
  <2> QED
    BY <1>3, <1>10, <2>1
<1> HIDE DEF T
<1>12. Tags(e, T)
  <2>1. \A a \in Dom(e) : Aligned(a) /\ Aligned(e.mem[a].size)
    <3>1. Aligned(T)
      BY <1>1, <1>2, <1>3, AlignedIs
    <3>2. Aligned(0)
      BY Constants DEF Aligned
    <3> QED
      BY <1>1, <1>2, <1>9, <1>10, <3>1, <3>2
  <2>2. Ends(e, T)
    <3>1. T < F + 8 + block_size_max
      BY <1>1, <1>2, <1>3, <1>b
    <3>2. \A a \in Dom(e) : F <= a /\ a <= T
      BY <1>2, <1>3, <1>9
    <3> QED
      BY <1>3, <1>10, <3>1, <3>2 DEF Ends, F
  <2>3. \A b \in Dom(e) \ {T} : Chained(e, b)
    <3>1. \A a \in Dom(e) : a <= F \/ T <= a
      BY <1>2, <1>3, <1>9
    <3>2. e.mem[T].prev_is_free = e.mem[F].is_free
      <4>1. e.mem[T].prev_is_free \in BOOLEAN /\ e.mem[F].is_free \in BOOLEAN
        BY <1>9, <1>10, HeaderTypes
      <4> QED
        BY <1>10, <4>1
    <3>3. Chained(e, F)
      BY <1>b, <1>10, <1>11, <3>1, <3>2 DEF Chained
    <3> QED
      BY <1>9, <3>3
  <2>4. \A a \in Dom(e) \ {F} : \E b \in Dom(e) \ {T} : block_next(e, b) = a
    BY <1>3, <1>9, <1>10, <1>11
  <2> QED
    BY <1>9, <2>1, <2>2, <2>3, <2>4 DEF Tags, F
<1>13. FreeOf(e) = {F} /\ UsedOf(e, T) = {}
  BY <1>9, <1>10 DEF FreeOf, UsedOf
<1>14. Loose(e, T, F)
  <2>1. IndexOnly(controller_new, e, {})
    BY <1>9 DEF IndexOnly, SameLists
  <2>2. Index(e, {})
    BY <2>1, NewIs, IndexSame
  <2>3. FreeOf(e) \ {F} = {}
    BY <1>13
  <2>4. Apart(e, {F})
    BY <1>13 DEF Apart
  <2> QED
    BY <1>12, <1>13, <2>2, <2>3, <2>4 DEF Loose
<1>15. HeapInv(g, T) /\ SameUsed(e, g, T)
  <2>1. block_next(e, F) \notin FreeOf(e)
    BY <1>3, <1>11, <1>13
  <2> QED
    BY <1>10, <1>14, <2>1, InsertLoose
<1> QED
  BY <1>4, <1>13, <1>15 DEF SameUsed

-----------------------------------------------------------------------------
(* What the clients hold                                                   *)

\* The blocks in use are those of l, each large enough and aligned.
HeldIn(h, l, T) ==
    /\ HeapInv(h, T)
    /\ \A p \in DOMAIN l :
          /\ p \in Nat /\ p - 16 \in UsedOf(h, T)
          /\ l[p].size \in Nat /\ l[p].align \in Nat /\ l[p].size <= h.mem[p - 16].size
          /\ l[p].align >= 4 * ALIGN_SIZE => p % l[p].align = 0
    /\ \A b \in UsedOf(h, T) : b + 16 \in DOMAIN l

\* l with a block more, and with one less.
More(l, p, n, A) == [q \in DOMAIN l \cup {p} |-> IF q = p THEN [size |-> n, align |-> A] ELSE l[q]]
Less(l, p) == [q \in DOMAIN l \ {p} |-> l[q]]

\* The header of a block in use.
LEMMA UsedTypes ==
    ASSUME NEW h, NEW T, HeapInv(h, T), NEW b \in UsedOf(h, T)
    PROVE  b \in Nat /\ b \in Dom(h) \ {T} /\ h.mem[b].size \in Nat
BY NextIs DEF HeapInv, UsedOf

\* A block that is given out is held by one client more,
LEMMA HeldGrant ==
    ASSUME NEW h, NEW l, NEW T, HeldIn(h, l, T), NEW m, NEW n \in Nat, NEW A \in Nat,
           Granted(h, m, T, n), m.ptr # NULL, A >= 4 * ALIGN_SIZE => m.ptr % A = 0
    PROVE  HeldIn(m.h, More(l, m.ptr, n, A), T) /\ m.ptr \notin DOMAIN l
<1> DEFINE p == m.ptr
           g == m.h
           k == More(l, p, n, A)
<1>1. /\ p \in Nat /\ HeapInv(g, T)
      /\ p - 16 \notin UsedOf(h, T) /\ UsedOf(g, T) = UsedOf(h, T) \cup {p - 16}
      /\ \A a \in UsedOf(h, T) : g.mem[a].size = h.mem[a].size
      /\ g.mem[p - 16].size \in Nat /\ g.mem[p - 16].size >= n
  BY DEF Granted
<1>2. p \notin DOMAIN l
  BY <1>1 DEF HeldIn
<1>3. /\ DOMAIN k = DOMAIN l \cup {p} /\ k[p].size = n /\ k[p].align = A
      /\ \A q \in DOMAIN l : k[q] = l[q]
  BY <1>2 DEF More
<1>4. A >= 4 * ALIGN_SIZE => p % A = 0
  OBVIOUS
<1> HIDE DEF k, p, g
<1>5. ASSUME NEW q \in DOMAIN k
      PROVE  /\ q \in Nat /\ q - 16 \in UsedOf(g, T)
             /\ k[q].size \in Nat /\ k[q].align \in Nat /\ k[q].size <= g.mem[q - 16].size
             /\ k[q].align >= 4 * ALIGN_SIZE => q % k[q].align = 0
  <2>1. CASE q = p
    BY <1>1, <1>3, <1>4, <2>1
  <2>2. CASE q # p
    <3>1. q \in DOMAIN l /\ k[q] = l[q]
      BY <1>3, <2>2
    <3>2. q - 16 \in UsedOf(h, T)
      BY <3>1 DEF HeldIn
    <3>3. g.mem[q - 16].size = h.mem[q - 16].size /\ q - 16 \in UsedOf(g, T)
      BY <1>1, <3>2
    <3> QED
      BY <3>1, <3>3 DEF HeldIn
  <2> QED
    BY <2>1, <2>2
<1>6. ASSUME NEW b \in UsedOf(g, T) PROVE b + 16 \in DOMAIN k
  <2>1. CASE b = p - 16
    BY <1>1, <1>3, <2>1
  <2>2. CASE b \in UsedOf(h, T)
    BY <1>3, <2>2 DEF HeldIn
  <2> QED
    BY <1>1, <2>1, <2>2
<1> QED
  BY <1>1, <1>2, <1>5, <1>6 DEF HeldIn, k, p, g

\* and one that is freed by none.
LEMMA HeldDrop ==
    ASSUME NEW h, NEW l, NEW T, HeldIn(h, l, T), NEW p \in DOMAIN l
    PROVE  HeldIn(htfh_free(h, p - 16).h, Less(l, p), T) /\ htfh_free(h, p - 16).ok = TRUE
<1> DEFINE b == p - 16
           f == htfh_free(h, b)
           k == Less(l, p)
<1>1. p \in Nat /\ b \in UsedOf(h, T) /\ HeapInv(h, T)
  BY DEF HeldIn
<1>2. /\ f.ok = TRUE /\ HeapInv(f.h, T) /\ UsedOf(f.h, T) = UsedOf(h, T) \ {b}
      /\ \A a \in UsedOf(h, T) \ {b} : f.h.mem[a].size = h.mem[a].size
  BY <1>1, FreeKeeps
<1>3. DOMAIN k = DOMAIN l \ {p} /\ \A q \in DOMAIN k : k[q] = l[q]
  BY DEF Less
<1> HIDE DEF k, f
<1>4. ASSUME NEW q \in DOMAIN k
      PROVE  /\ q \in Nat /\ q - 16 \in UsedOf(f.h, T)
             /\ k[q].size \in Nat /\ k[q].align \in Nat /\ k[q].size <= f.h.mem[q - 16].size
             /\ k[q].align >= 4 * ALIGN_SIZE => q % k[q].align = 0
  <2>1. q \in DOMAIN l /\ q # p /\ k[q] = l[q]
    BY <1>3
  <2>2. q \in Nat /\ q - 16 \in UsedOf(h, T)
    BY <2>1 DEF HeldIn
  <2>3. q - 16 # b
    BY <1>1, <2>1, <2>2
  <2>4. f.h.mem[q - 16].size = h.mem[q - 16].size /\ q - 16 \in UsedOf(f.h, T)
    BY <1>2, <2>2, <2>3
  <2> QED
    BY <2>1, <2>4 DEF HeldIn
<1>5. ASSUME NEW a \in UsedOf(f.h, T) PROVE a + 16 \in DOMAIN k
  <2>1. a \in UsedOf(h, T) /\ a # b /\ a \in Nat
    BY <1>1, <1>2, UsedTypes
  <2>2. a + 16 \in DOMAIN l /\ a + 16 # p
    BY <1>1, <2>1 DEF HeldIn
  <2> QED
    BY <1>3, <2>2
<1> QED
  BY <1>2, <1>4, <1>5 DEF HeldIn, f, k, b

\* A block copied to a larger one, and freed.
LEMMA HeldMove ==
    ASSUME NEW h, NEW l, NEW T, HeldIn(h, l, T), NEW p \in DOMAIN l, NEW n \in Nat, n + ALIGN_SIZE <= 2 ^ SizeBits
    PROVE  LET m == htfh_malloc(h, n)
               c == CopiedFrom(m, p - 16)
           IN  \/ m.ptr = NULL /\ c = [h |-> h, ptr |-> NULL]
               \/ /\ c.ptr = m.ptr /\ m.ptr # NULL /\ m.ptr \notin DOMAIN l
                  /\ HeldIn(m.h, More(l, m.ptr, n, ALIGN_SIZE), T)
                  /\ HeldIn(c.h, Less(More(l, m.ptr, n, ALIGN_SIZE), p), T)
<1> DEFINE m == htfh_malloc(h, n)
           c == CopiedFrom(m, p - 16)
           k == More(l, m.ptr, n, ALIGN_SIZE)
<1>1. Granted(h, m, T, n)
  BY MallocKeeps DEF HeldIn
<1>2. c = IF m.ptr = NULL THEN m
          ELSE [h |-> htfh_free(m.h, p - 16).h, ptr |-> IF htfh_free(m.h, p - 16).ok THEN m.ptr ELSE NULL]
  BY DEF CopiedFrom
<1>3. ALIGN_SIZE \in Nat /\ ~(ALIGN_SIZE >= 4 * ALIGN_SIZE)
  BY Constants
<1> HIDE DEF m, c
<1>4. CASE m.ptr = NULL
  <2>1. m = [h |-> h, ptr |-> NULL]
    BY <1>1, <1>4 DEF Granted
  <2> QED
    BY <1>2, <1>4, <2>1 DEF m, c
<1>5. CASE m.ptr # NULL
  <2>1. HeldIn(m.h, k, T) /\ m.ptr \notin DOMAIN l
    BY <1>1, <1>3, <1>5, HeldGrant
  <2>2. p \in DOMAIN k
    BY DEF More
  <2> HIDE DEF k
  <2>3. HeldIn(htfh_free(m.h, p - 16).h, Less(k, p), T) /\ htfh_free(m.h, p - 16).ok = TRUE
    BY <2>1, <2>2, HeldDrop
  <2>4. c.h = htfh_free(m.h, p - 16).h /\ c.ptr = m.ptr
    BY <1>2, <1>5, <2>3
  <2> QED
    BY <1>5, <2>1, <2>3, <2>4 DEF m, c, k
<1> QED
  BY <1>4, <1>5

-----------------------------------------------------------------------------
(* The invariant                                                           *)

\* The heap has no pool, or its blocks in use are those the clients hold.
IInv ==
    \/ heap = controller_new /\ live = [p \in {} |-> NULL]
    \/ created /\ \E T : HeldIn(heap, live, T)

\* A thread is given a block of n bytes, or nothing.
LEMMA TakesKeeps ==
    ASSUME IInv, NEW m, NEW n \in Nat, NEW A \in Nat, Takes(m, n, A), UNCHANGED created,
           heap = controller_new => m = [h |-> controller_new, ptr |-> NULL],
           \A T : HeapInv(heap, T) => Granted(heap, m, T, n),
           m.ptr # NULL /\ A >= 4 * ALIGN_SIZE => m.ptr % A = 0
    PROVE  IInv'
<1>1. heap' = m.h /\ live' = IF m.ptr = NULL THEN live ELSE More(live, m.ptr, n, A)
  BY DEF Takes, Given, More
<1>2. CASE heap = controller_new
  <2>1. heap' = heap /\ live' = live
    BY <1>1, <1>2
  <2> QED
    BY <2>1 DEF IInv
<1>3. CASE heap # controller_new
  <2>1. PICK T : HeldIn(heap, live, T)
    BY <1>3 DEF IInv
  <2>2. Granted(heap, m, T, n) /\ created
    BY <1>3, <2>1 DEF HeldIn, IInv
  <2>3. CASE m.ptr = NULL
    <3>1. m = [h |-> heap, ptr |-> NULL]
      BY <2>2, <2>3 DEF Granted
    <3>2. heap' = heap /\ live' = live
      BY <1>1, <3>1
    <3> QED
      BY <3>2 DEF IInv
  <2>4. CASE m.ptr # NULL
    <3>1. HeldIn(m.h, More(live, m.ptr, n, A), T)
      BY <2>1, <2>2, <2>4, HeldGrant
    <3>2. HeldIn(heap', live', T) /\ created'
      BY <1>1, <2>2, <2>4, <3>1
    <3> QED
      BY <3>2 DEF IInv
  <2> QED
    BY <2>3, <2>4
<1> QED
  BY <1>2, <1>3

\* A thread frees a block that it holds, or one that was free.
LEMMA FreeStep ==
    ASSUME IInv, NEW t, NEW p, Free(t, p), (\E b \in Blocks : p = b + 16) \/ p \in DOMAIN live
    PROVE  IInv' /\ (live' = live \/ (p \in DOMAIN live /\ live' = Less(live, p)))
<1> DEFINE b == p - 16
           f == htfh_free(heap, b)
<1>1. heap' = f.h /\ (live' = IF f.ok THEN Less(live, p) ELSE live) /\ created' = created
  BY DEF Free, Without, Less, block_from_ptr, block_start_offset, Word
<1>2. heap # controller_new
  <2>1. ASSUME heap = controller_new PROVE FALSE
    <3>1. Dom(heap) = {}
      BY <2>1, NewIs
    <3>2. Blocks = {}
      BY <3>1 DEF Blocks, Dom
    <3>3. PICK T : HeldIn(heap, live, T)
      BY <3>2 DEF IInv
    <3>4. FirstBlock \in Dom(heap)
      BY <3>3 DEF HeldIn, HeapInv, Tags, Ends
    <3> QED
      BY <3>1, <3>4
  <2> QED
    BY <2>1
<1>3. PICK T : HeldIn(heap, live, T)
  BY <1>2 DEF IInv
<1>a. created /\ created'
  BY <1>1, <1>2 DEF IInv
<1>4. CASE p \in DOMAIN live
  <2>1. HeldIn(f.h, Less(live, p), T) /\ f.ok = TRUE
    BY <1>3, <1>4, HeldDrop
  <2>2. HeldIn(heap', live', T) /\ live' = Less(live, p)
    BY <1>1, <2>1
  <2> QED
    BY <1>4, <1>a, <2>2 DEF IInv
<1>5. CASE p \notin DOMAIN live
  <2>1. b \in Blocks /\ b + 16 = p
    <3>1. PICK d \in Blocks : p = d + 16
      BY <1>5
    <3>2. d \in Nat
      BY <1>3, TagsType DEF HeldIn, HeapInv, Blocks, Dom
    <3> QED
      BY <3>1, <3>2
  <2>2. b \in Dom(heap) /\ heap.mem[b].size # 0
    BY <2>1 DEF Blocks, Dom
  <2>3. heap.mem[b].is_free
    <3>1. ASSUME ~heap.mem[b].is_free PROVE FALSE
      <4>1. b \in UsedOf(heap, T)
        BY <1>3, <2>2, <3>1 DEF UsedOf, HeldIn, HeapInv, Tags, Ends
      <4>2. b + 16 \in DOMAIN live
        BY <1>3, <4>1 DEF HeldIn
      <4>3. b + 16 = p
        BY <2>1
      <4> QED
        BY <1>5, <4>2, <4>3
    <3> QED
      BY <3>1
  <2>4. f = [h |-> heap, ok |-> FALSE]
    BY <2>3 DEF htfh_free
  <2>5. heap' = heap /\ live' = live
    BY <1>1, <2>4
  <2> QED
    BY <1>1, <2>5 DEF IInv
<1> QED
  BY <1>4, <1>5

\* Every size that is asked for is far enough from the end of size_t.
LEMMA RequestIs ==
    /\ \A n \in Sizes : n \in Nat /\ n + ALIGN_SIZE <= 2 ^ SizeBits
    /\ \A count \in Counts, bytes \in Sizes :
          /\ count * bytes \in Nat /\ count * bytes + ALIGN_SIZE <= 2 ^ SizeBits
          /\ size_t(count * bytes) = count * bytes
<1>1. \A n \in Sizes : n \in Nat /\ n + ALIGN_SIZE <= 2 ^ SizeBits
  BY ConstantsAssumption, RequestsAssumption
<1>2. ASSUME NEW count \in Counts, NEW bytes \in Sizes
      PROVE  /\ count * bytes \in Nat /\ count * bytes + ALIGN_SIZE <= 2 ^ SizeBits
             /\ size_t(count * bytes) = count * bytes
  <2> DEFINE n == count * bytes
  <2>1. count \in Nat /\ bytes \in Nat
    BY ConstantsAssumption
  <2>2. n \in Nat
    BY <2>1
  <2>3. n + ALIGN_SIZE <= 2 ^ SizeBits
    BY RequestsAssumption
  <2> HIDE DEF n
  <2>4. 2 ^ SizeBits \in Nat \ {0} /\ n < 2 ^ SizeBits
    BY <2>2, <2>3, Constants
  <2>5. size_t(n) = n
    BY <2>2, <2>4, ModIs DEF size_t
  <2> QED
    BY <2>2, <2>3, <2>5 DEF n
<1> QED
  BY <1>1, <1>2

\* A call of malloc for n bytes that leaves m.
LEMMA MallocStep ==
    ASSUME IInv, NEW n \in Nat, n + ALIGN_SIZE <= 2 ^ SizeBits,
           Takes(htfh_malloc(heap, n), n, ALIGN_SIZE), UNCHANGED created
    PROVE  IInv'
<1> DEFINE m == htfh_malloc(heap, n)
<1>1. heap = controller_new => m = [h |-> controller_new, ptr |-> NULL]
  BY EmptyGrants
<1>2. \A T : HeapInv(heap, T) => Granted(heap, m, T, n)
  BY MallocKeeps
<1>3. ALIGN_SIZE \in Nat /\ ~(ALIGN_SIZE >= 4 * ALIGN_SIZE)
  BY Constants
<1>4. Takes(m, n, ALIGN_SIZE)
  OBVIOUS
<1> HIDE DEF m
<1> QED
  BY <1>1, <1>2, <1>3, <1>4, TakesKeeps

\* A call of memalign.
LEMMA MemalignStep ==
    ASSUME IInv, NEW t, NEW A \in Aligns, NEW n \in Sizes, Memalign(t, A, n)
    PROVE  IInv'
<1> DEFINE m == htfh_memalign(heap, A, n)
<1>1. n \in Nat /\ n + ALIGN_SIZE <= 2 ^ SizeBits
  BY RequestIs
<1>2. heap = controller_new => m = [h |-> controller_new, ptr |-> NULL]
  BY <1>1, EmptyGrants
<1>3. \A T : HeapInv(heap, T) => Granted(heap, m, T, n) /\ (m.ptr # NULL /\ A >= 4 * ALIGN_SIZE => m.ptr % A = 0)
  BY <1>1, MemalignKeeps
<1>4. A \in Nat
  BY AlignIs
<1>5. Takes(m, n, A) /\ UNCHANGED created
  BY DEF Memalign
<1> HIDE DEF m
<1>6. m.ptr # NULL /\ A >= 4 * ALIGN_SIZE => m.ptr % A = 0
  <2>1. CASE heap = controller_new
    BY <1>2, <2>1
  <2>2. CASE heap # controller_new
    <3>1. PICK T : HeldIn(heap, live, T)
      BY <2>2 DEF IInv
    <3> QED
      BY <1>3, <3>1 DEF HeldIn
  <2> QED
    BY <2>1, <2>2
<1> QED
  BY <1>1, <1>2, <1>3, <1>4, <1>5, <1>6, TakesKeeps

\* What a realloc in place or by copying comes to.
LEMMA ReallocIs ==
    ASSUME IInv, NEW t, NEW p \in DOMAIN live, NEW n \in Sizes, Realloc(t, p, n)
    PROVE  \E T :
             /\ HeldIn(heap, live, T)
             /\ \/ heap' = heap /\ live' = live
                \/ LET m == htfh_malloc(heap, n)
                       k == More(live, m.ptr, n, ALIGN_SIZE)
                   IN  /\ realloc_copies(heap, p - 16, n)
                       /\ m.ptr \notin DOMAIN live /\ HeldIn(m.h, k, T)
                       /\ live' = Less(k, p) /\ HeldIn(heap', live', T)
<1> DEFINE b == p - 16
           m == htfh_malloc(heap, n)
           c == CopiedFrom(m, b)
           k == More(live, m.ptr, n, ALIGN_SIZE)
           r == controller_block_trim_used(heap, b, adjust_request_size(n, ALIGN_SIZE))
<1>1. n \in Nat /\ n + ALIGN_SIZE <= 2 ^ SizeBits
  BY RequestIs
<1>2. PICK T : HeldIn(heap, live, T)
  BY DEF IInv
<1>3. IF realloc_copies(heap, b, n)
      THEN /\ heap' = c.h
           /\ live' = IF c.ptr = NULL THEN live
                      ELSE [q \in (DOMAIN live \ {p}) \cup {c.ptr} |->
                              IF q = c.ptr THEN [size |-> n, align |-> ALIGN_SIZE] ELSE live[q]]
      ELSE heap' = r.h /\ (live' = IF r.ok THEN Given(p, n, ALIGN_SIZE) ELSE live)
  BY DEF Realloc, block_from_ptr, block_start_offset, Word
<1>4. r = [h |-> heap, ok |-> FALSE]
  <2>1. ~heap.mem[b].is_free
    BY <1>2 DEF HeldIn, UsedOf
  <2> QED
    BY <2>1 DEF controller_block_trim_used
<1>5. \/ m.ptr = NULL /\ c = [h |-> heap, ptr |-> NULL]
      \/ /\ c.ptr = m.ptr /\ m.ptr # NULL /\ m.ptr \notin DOMAIN live
         /\ HeldIn(m.h, k, T) /\ HeldIn(c.h, Less(k, p), T)
  BY <1>1, <1>2, HeldMove
<1> HIDE DEF r, c, m
<1>6. CASE ~realloc_copies(heap, b, n) \/ m.ptr = NULL
  <2>1. heap' = heap /\ live' = live
    BY <1>3, <1>4, <1>5, <1>6
  <2> QED
    BY <1>2, <2>1
<1>7. CASE realloc_copies(heap, b, n) /\ m.ptr # NULL
  <2>1. /\ c.ptr = m.ptr /\ m.ptr \notin DOMAIN live
        /\ HeldIn(m.h, k, T) /\ HeldIn(c.h, Less(k, p), T)
    BY <1>5, <1>7
  <2>2. Less(k, p) = [q \in (DOMAIN live \ {p}) \cup {m.ptr} |->
                        IF q = m.ptr THEN [size |-> n, align |-> ALIGN_SIZE] ELSE live[q]]
    <3>1. (DOMAIN live \cup {m.ptr}) \ {p} = (DOMAIN live \ {p}) \cup {m.ptr}
      BY <2>1
    <3> QED
      BY <3>1 DEF Less, More
  <2>3. heap' = c.h /\ live' = Less(k, p)
    BY <1>3, <1>7, <2>1, <2>2
  <2> HIDE DEF k
  <2>4. HeldIn(heap', live', T)
    BY <2>1, <2>3
  <2> QED
    BY <1>2, <1>7, <2>1, <2>3, <2>4 DEF k, m
<1> QED
  BY <1>6, <1>7

\* The invariant holds before htfh_create,
LEMMA InitStep == Init => IInv
BY DEF Init, IInv

\* through every call of every thread,
LEMMA NextStep == IInv /\ [Next]_vars => IInv'
<1> SUFFICES ASSUME IInv, [Next]_vars PROVE IInv'
  OBVIOUS
<1>1. CASE UNCHANGED vars
  BY <1>1 DEF IInv, vars
<1>2. ASSUME NEW bytes \in HeapSizes, htfh_create(bytes) PROVE IInv'
  <2>1. heap = controller_new /\ live = [p \in {} |-> NULL] /\ live' = live
    BY <1>2 DEF IInv, htfh_create
  <2>2. CASE heap' = heap
    BY <2>1, <2>2 DEF IInv
  <2>3. CASE heap' # heap
    <3>1. created' /\ heap' = htfh_add_pool(bytes)
      BY <1>2, <2>3 DEF htfh_create
    <3>2. PICK T : HeapInv(heap', T) /\ UsedOf(heap', T) = {}
      BY <2>1, <2>3, <3>1, PoolKeeps
    <3>3. DOMAIN live' = {}
      BY <2>1
    <3>4. HeldIn(heap', live', T)
      BY <3>2, <3>3 DEF HeldIn
    <3> QED
      BY <3>1, <3>4 DEF IInv
  <2> QED
    BY <2>2, <2>3
<1>3. ASSUME NEW t \in Threads, htfh_destroy(t) PROVE IInv'
  BY <1>3 DEF htfh_destroy, IInv
<1>4. ASSUME NEW t \in Threads, NEW n \in Sizes, Malloc(t, n) PROVE IInv'
  BY <1>4, RequestIs, MallocStep DEF Malloc
<1>5. ASSUME NEW t \in Threads, NEW count \in Counts, NEW bytes \in Sizes, htfh_calloc(t, count, bytes) PROVE IInv'
  <2> DEFINE n == count * bytes
  <2>1. n \in Nat /\ n + ALIGN_SIZE <= 2 ^ SizeBits /\ size_t(n) = n
    BY RequestIs
  <2>2. Takes(htfh_malloc(heap, size_t(n)), n, ALIGN_SIZE) /\ UNCHANGED created
    BY <1>5 DEF htfh_calloc
  <2> HIDE DEF n
  <2>3. Takes(htfh_malloc(heap, n), n, ALIGN_SIZE)
    BY <2>1, <2>2
  <2> QED
    BY <2>1, <2>2, <2>3, MallocStep
<1>6. ASSUME NEW t \in Threads, NEW b \in Blocks, Free(t, block_to_ptr(b)) PROVE IInv'
  <2>1. block_to_ptr(b) = b + 16
    BY DEF block_to_ptr, block_start_offset, Word
  <2> QED
    BY <1>6, <2>1, FreeStep
<1>7. ASSUME NEW t \in Threads, NEW A \in Aligns, NEW n \in Sizes, Memalign(t, A, n) PROVE IInv'
  BY <1>7, MemalignStep
<1>8. ASSUME NEW t \in Threads, NEW p \in DOMAIN live, Free(t, p) PROVE IInv'
  BY <1>8, FreeStep
<1>9. ASSUME NEW t \in Threads, NEW p \in DOMAIN live, NEW n \in Sizes \ {0}, Realloc(t, p, n) PROVE IInv'
  <2>1. created' = created /\ created
    BY <1>9 DEF Realloc, Locks
  <2>2. PICK T : /\ HeldIn(heap, live, T)
                 /\ (heap' = heap /\ live' = live) \/ HeldIn(heap', live', T)
    BY <1>9, ReallocIs
  <2>3. HeldIn(heap', live', T)
    BY <2>2
  <2> QED
    BY <2>1, <2>3 DEF IInv
<1> QED
  BY <1>1, <1>2, <1>3, <1>4, <1>5, <1>6, <1>7, <1>8, <1>9 DEF Next, ReallocNull, ReallocZero

\* and therefore always.
LEMMA Invariant == Spec => []IInv
BY InitStep, NextStep, PTL DEF Spec

-----------------------------------------------------------------------------
(* The blocks                                                              *)

\* The model's Blocks are all headers but the last.
LEMMA BlocksAre ==
    ASSUME NEW T, HeapInv(heap, T)
    PROVE  /\ Blocks = Dom(heap) \ {T} /\ T \in Dom(heap) /\ Dom(heap) = DOMAIN heap.mem
           /\ {b \in Blocks : heap.mem[b].is_free} = FreeOf(heap)
           /\ {b \in Blocks : ~heap.mem[b].is_free} = UsedOf(heap, T)
           /\ Blocks \subseteq Nat \ {0} /\ IsFiniteSet(Blocks)
<1>1. Tags(heap, T) /\ HeapType(heap)
  BY DEF HeapInv, Tags
<1>2. T \in Dom(heap) /\ heap.mem[T].size = 0 /\ ~heap.mem[T].is_free
  BY <1>1 DEF Tags, Ends
<1>3. \A b \in Dom(heap) \ {T} : heap.mem[b].size # 0
  <2>1. \A b \in Dom(heap) \ {T} : heap.mem[b].size \in Nat /\ heap.mem[b].size >= 24
    BY <1>1, NextIs
  <2> QED
    BY <2>1
<1>4. Blocks = Dom(heap) \ {T}
  BY <1>2, <1>3 DEF Blocks, Dom
<1>5. Blocks \subseteq Nat \ {0}
  BY <1>1, <1>4 DEF HeapType
<1>6. IsFiniteSet(Blocks)
  <2>1. T \in Nat /\ \A a \in Dom(heap) : a \in Nat /\ a <= T
    BY <1>1, TagsType
  <2>2. IsFiniteSet(0 .. T)
    BY <2>1, FS_Interval
  <2>3. Blocks \subseteq 0 .. T
    BY <1>4, <2>1
  <2> QED
    BY <2>2, <2>3, FS_Subset
<1> QED
  BY <1>2, <1>4, <1>5, <1>6 DEF FreeOf, UsedOf, Dom

\* Without a pool there are none.
LEMMA NoBlocks ==
    ASSUME heap = controller_new
    PROVE  Blocks = {} /\ DOMAIN heap.mem = {}
BY NewIs DEF Blocks, Dom

\* Between two calls the heap has no pool or is as HeapInv says.
LEMMA IInvCases ==
    ASSUME IInv
    PROVE  \/ heap = controller_new /\ live = [p \in {} |-> NULL]
           \/ \E T : HeldIn(heap, live, T) /\ HeapInv(heap, T)
BY DEF IInv, HeldIn

\* Whatever threads ask of the allocator, the blocks tile the pool from the
\* first block of htfh_add_pool to the empty one at its end: block_split and
\* block_absorb never leave a gap, an overlap, a block below block_size_min or a
\* size that is not a multiple of ALIGN_SIZE.
THEOREM HeapTiled == Spec => []Tiled
<1>1. ASSUME IInv PROVE Tiled
  <2>1. CASE heap = controller_new
    BY <2>1, NoBlocks DEF Tiled
  <2>2. ASSUME NEW T, HeapInv(heap, T) PROVE Tiled
    <3>1. Blocks = Dom(heap) \ {T} /\ T \in Dom(heap) /\ Dom(heap) = DOMAIN heap.mem
      BY <2>2, BlocksAre
    <3>2. Tags(heap, T)
      BY <2>2 DEF HeapInv
    <3>3. \A b \in DOMAIN heap.mem : b % ALIGN_SIZE = 0 /\ heap.mem[b].size % ALIGN_SIZE = 0
      BY <3>1, <3>2 DEF Tags, Aligned
    <3>4. ASSUME NEW b \in Blocks
          PROVE  /\ heap.mem[b].size >= block_size_min
                 /\ block_next(heap, b) \in DOMAIN heap.mem
                 /\ \A a \in DOMAIN heap.mem : ~(b < a /\ a < block_next(heap, b))
      <4>1. /\ b \in Nat /\ heap.mem[b].size >= 24 /\ block_next(heap, b) \in Dom(heap)
            /\ block_next(heap, b) \in Nat
            /\ \A a \in Dom(heap) : a <= b \/ block_next(heap, b) <= a
        BY <3>1, <3>2, NextIs
      <4>2. block_size_min = 24
        BY DEF block_size_min, sizeof_BlockHeader, Word
      <4>3. \A a \in Dom(heap) : a \in Nat
        BY <3>2, TagsType
      <4>4. ASSUME NEW a \in Dom(heap) PROVE ~(b < a /\ a < block_next(heap, b))
        <5> DEFINE e == block_next(heap, b)
        <5>1. (a <= b \/ e <= a) /\ a \in Nat /\ b \in Nat /\ e \in Nat
          BY <4>1, <4>3
        <5> HIDE DEF e
        <5>2. ~(b < a /\ a < e)
          BY <5>1
        <5> QED
          BY <5>2 DEF e
      <4> QED
        BY <3>1, <4>1, <4>2, <4>4
    <3>5. DOMAIN heap.mem \ Blocks = {T}
      BY <3>1
    <3>6. Cardinality(DOMAIN heap.mem \ Blocks) = 1
      BY <3>5, FS_Singleton
    <3>7. FirstBlock \in Dom(heap) /\ FirstBlock # T /\ \A a \in Dom(heap) : FirstBlock <= a /\ a <= T /\ a \in Nat
      <4>1. FirstBlock \in Nat /\ T \in Nat /\ FirstBlock < T
        BY <3>2, TagsType DEF Tags, Ends
      <4> QED
        BY <3>2, <4>1, TagsType
    <3>8. \A b \in Blocks, a \in DOMAIN heap.mem \ Blocks : FirstBlock <= b /\ b < a
      BY <3>1, <3>5, <3>7
    <3> QED
      BY <3>1, <3>3, <3>4, <3>6, <3>7, <3>8 DEF Tiled
  <2> QED
    BY <1>1, <2>1, <2>2, IInvCases
<1> QED
  BY <1>1, Invariant, PTL

\* Whatever threads ask of the allocator, a header's second flag says whether
\* the block in front of it is free and prev_phys_block then leads to it: what
\* controller_block_merge_prev relies on.
THEOREM FlagsExact == Spec => []PrevFlagExact
<1>1. ASSUME IInv PROVE PrevFlagExact
  <2>1. CASE heap = controller_new
    BY <2>1, NoBlocks DEF PrevFlagExact
  <2>2. ASSUME NEW T, HeapInv(heap, T) PROVE PrevFlagExact
    <3>1. \A b \in Blocks : Chained(heap, b)
      BY <2>2, BlocksAre DEF HeapInv, Tags
    <3> QED
      BY <3>1 DEF PrevFlagExact, Chained
  <2> QED
    BY <1>1, <2>1, <2>2, IInvCases
<1> QED
  BY <1>1, Invariant, PTL

\* Whatever threads ask of the allocator, no two neighbours are free: the two
\* merges of htfh_free, the split of controller_block_trim_free and the gap of
\* htfh_memalign leave nothing to join.
THEOREM Coalesced == Spec => []NoFreeNeighbours
<1>1. ASSUME IInv PROVE NoFreeNeighbours
  <2>1. CASE heap = controller_new
    BY <2>1, NoBlocks DEF NoFreeNeighbours
  <2>2. ASSUME NEW T, HeapInv(heap, T) PROVE NoFreeNeighbours
    <3>1. Apart(heap, {}) /\ \A b \in Blocks : Chained(heap, b)
      BY <2>2, BlocksAre DEF HeapInv, Tags
    <3>2. \A b \in Blocks : b \in Dom(heap) /\ block_next(heap, b) \in Dom(heap)
      BY <2>2, <3>1, BlocksAre DEF Chained
    <3> QED
      BY <3>1, <3>2 DEF NoFreeNeighbours, Apart, FreeOf
  <2> QED
    BY <1>1, <2>1, <2>2, IInvCases
<1> QED
  BY <1>1, Invariant, PTL

\* Whatever threads ask of the allocator, the blocks in use are those the
\* clients were given by malloc, calloc, memalign or realloc and did not free,
\* each at least as large as was asked and, from four times ALIGN_SIZE on, as
\* aligned as was asked of htfh_memalign.
THEOREM HeldBlocks == Spec => []HeldExact
<1>1. ASSUME IInv PROVE HeldExact
  <2>0. \A p : block_from_ptr(p) = p - 16
    BY DEF block_from_ptr, block_start_offset, Word
  <2>1. CASE heap = controller_new /\ live = [p \in {} |-> NULL]
    <3>1. DOMAIN live = {}
      BY <2>1
    <3> QED
      BY <2>1, <3>1, NoBlocks DEF HeldExact
  <2>2. ASSUME NEW T, HeldIn(heap, live, T), HeapInv(heap, T) PROVE HeldExact
    <3>1. {b \in Blocks : ~heap.mem[b].is_free} = UsedOf(heap, T)
      BY <2>2, BlocksAre
    <3>2. {block_from_ptr(p) : p \in DOMAIN live} = UsedOf(heap, T)
      <4>1. ASSUME NEW b \in UsedOf(heap, T) PROVE \E p \in DOMAIN live : block_from_ptr(p) = b
        <5>1. b \in Nat /\ b + 16 \in DOMAIN live
          BY <2>2, UsedTypes DEF HeldIn
        <5>2. block_from_ptr(b + 16) = b
          BY <2>0, <5>1
        <5> QED
          BY <5>1, <5>2
      <4> QED
        BY <2>0, <2>2, <4>1 DEF HeldIn
    <3> QED
      BY <2>0, <2>2, <3>1, <3>2 DEF HeldExact, HeldIn
  <2> QED
    BY <1>1, <2>1, <2>2, IInvCases
<1> QED
  BY <1>1, Invariant, PTL

\* Whatever threads ask of the allocator, controller_block_find_free answers a
\* free block that is large enough and misses one only in the class of the size
\* itself, when that class also holds smaller sizes: the rounding of
\* mapping_search is right for every size and every width of the classes.
THEOREM SearchIsExact == Spec => []SearchExact
<1>1. ASSUME IInv PROVE SearchExact
  <2> DEFINE Asked == {adjust_request_size(size, ALIGN_SIZE) : size \in Sizes} \ {0}
             There == {heap.mem[b].size : b \in {b \in Blocks : heap.mem[b].is_free}}
             Answer(n) == controller_block_find_free(heap, n).block
             Ok(n) == /\ Answer(n) # NULL => heap.mem[Answer(n)].is_free /\ heap.mem[Answer(n)].size >= n
                      /\ Answer(n) = NULL => \A b \in Blocks :
                            heap.mem[b].is_free /\ heap.mem[b].size >= n =>
                                /\ mapping_insert(heap.mem[b].size) = mapping_insert(n)
                                /\ mapping_insert(n - ALIGN_SIZE) = mapping_insert(n)
  <2>1. \A n \in Asked : n \in Nat /\ n < block_size_max /\ Aligned(n) /\ n >= 24
    BY RequestIs, AdjustIs
  <2>2. SearchExact <=> \A n \in Asked \cup There : Ok(n)
    BY Zenon DEF SearchExact
  <2> HIDE DEF Asked, There, Ok
  <2>3. CASE heap = controller_new
    <3>1. There = {} /\ Blocks = {}
      BY <2>3, NoBlocks DEF There
    <3>2. \A n \in Asked : Answer(n) = NULL
      BY <2>1, <2>3, EmptyFind
    <3>3. \A n \in Asked : Ok(n)
      BY <3>1, <3>2 DEF Ok
    <3> QED
      BY <2>2, <3>1, <3>3
  <2>4. ASSUME NEW T, HeapInv(heap, T) PROVE SearchExact
    <3>1. /\ Blocks = Dom(heap) \ {T} /\ {b \in Blocks : heap.mem[b].is_free} = FreeOf(heap)
          /\ Tags(heap, T) /\ HeapType(heap) /\ Index(heap, FreeOf(heap)) /\ Bitmaps(heap)
      BY <2>4, BlocksAre DEF HeapInv, Tags, Index
    <3>2. ASSUME NEW b \in FreeOf(heap)
          PROVE  /\ b \in Nat /\ heap.mem[b].size \in Nat /\ heap.mem[b].size < block_size_max
                 /\ Aligned(heap.mem[b].size) /\ heap.mem[b].size >= 24
                 /\ mapping_insert(heap.mem[b].size) \in Classes
      <4>1. b \in Dom(heap) \ {T}
        BY <3>1, TagsType
      <4> QED
        BY <3>1, <4>1, NextIs, FreeClass DEF Tags
    <3>3. \A n \in There : n \in Nat /\ n < block_size_max /\ Aligned(n) /\ n >= 24
      BY <3>1, <3>2 DEF There
    <3>4. ASSUME NEW n \in Asked \cup There PROVE Ok(n)
      <4> DEFINE c == SuitableClass(heap, n)
                 x == heap.blocks[c]
                 s == mapping_search(n)
      <4>1. n \in Nat /\ n < block_size_max /\ Aligned(n) /\ n >= 24 /\ n # 0
        BY <2>1, <3>3
      <4>2. Answer(n) = IF c = NoClass \/ heap.mem[x].size < n \/ ~Linked(heap, x) THEN NULL ELSE x
        BY DEF controller_block_find_free
      <4>3. \/ /\ c \in Classes /\ c # NoClass /\ x # 0 /\ Before(s, c)
            \/ /\ c = NoClass
               /\ \A d \in Classes : Before(s, d) => heap.blocks[d] = 0
        BY <3>1, <4>1, SuitableIs
      <4> HIDE DEF c, s
      <4>4. CASE c # NoClass
        <5>1. x \in FreeOf(heap) /\ mapping_insert(heap.mem[x].size) = c
          BY <3>1, <4>3, <4>4, HeadIs
        <5>2. n <= heap.mem[x].size
          BY <3>2, <4>1, <4>3, <4>4, <5>1, SearchSuffices DEF Aligned, s
        <5>3. Answer(n) = x /\ x # NULL
          <6>1. Linked(heap, x)
            BY <3>1, <4>3, <4>4, <5>1, LinkedIs
          <6> QED
            BY <3>2, <4>1, <4>2, <4>4, <5>1, <5>2, <6>1 DEF NULL
        <5>4. heap.mem[x].is_free /\ heap.mem[x].size >= n
          BY <3>2, <4>1, <5>1, <5>2 DEF FreeOf
        <5> QED
          BY <5>3, <5>4 DEF Ok
      <4>5. CASE c = NoClass
        <5>1. Answer(n) = NULL
          BY <4>2, <4>5
        <5>2. ASSUME NEW b \in Blocks, heap.mem[b].is_free, heap.mem[b].size >= n
              PROVE  /\ mapping_insert(heap.mem[b].size) = mapping_insert(n)
                     /\ mapping_insert(n - ALIGN_SIZE) = mapping_insert(n)
          <6> DEFINE z == heap.mem[b].size
                     d == mapping_insert(z)
          <6>1. b \in FreeOf(heap) /\ z \in Nat /\ z < block_size_max /\ d \in Classes /\ n <= z
            BY <3>1, <3>2, <4>1, <5>2
          <6>2. heap.blocks[d] # 0
            BY <3>1, <6>1, MarkedIs
          <6>3. ~Before(s, d)
            BY <4>3, <4>5, <6>1, <6>2 DEF NoClass, Classes, FLs, NULL
          <6> HIDE DEF z
          <6>4. d = mapping_insert(n)
            BY <4>1, <6>1, <6>3, SearchMisses DEF s
          <6>5. ASSUME mapping_insert(n - ALIGN_SIZE) # mapping_insert(n) PROVE FALSE
            <7>1. ALIGN_SIZE <= n
              BY <4>1, Constants
            <7>2. s = mapping_insert(n)
              BY <4>1, <6>5, <7>1, SearchFirst DEF Aligned, s
            <7>3. d[1] \in Nat /\ d[2] \in Nat
              BY <6>1, Constants, Widths DEF Classes, FLs, SLs
            <7> QED
              BY <6>3, <6>4, <7>2, <7>3 DEF Before
          <6> QED
            BY <6>4, <6>5 DEF z
        <5> QED
          BY <5>1, <5>2 DEF Ok
      <4> QED
        BY <4>4, <4>5
    <3> QED
      BY <2>2, <3>4
  <2> QED
    BY <1>1, <2>3, <2>4, IInvCases
<1> QED
  BY <1>1, Invariant, PTL

-----------------------------------------------------------------------------
(* Walking the lists                                                       *)

\* The walk along a list is the recursive function of its steps.
Onward(h, B, b) == IF b \in B THEN h.mem[b].next_free ELSE b

Steps(h, c, B, n, f) == [i \in 0 .. n |-> IF i = 0 THEN h.blocks[c] ELSE Onward(h, B, f[i - 1])]

\* There is such a function,
LEMMA WalkExists ==
    ASSUME NEW h, NEW c, NEW B, NEW N \in Nat
    PROVE  \E f : f = Steps(h, c, B, N, f)
<1> DEFINE Body(f, n) == [i \in 0 .. n |-> IF i = 0 THEN h.blocks[c] ELSE Onward(h, B, f[i - 1])]
           S == {n \in Nat : \E f : f = Body(f, n)}
<1>1. 0 \in S
  <2> DEFINE f == [i \in 0 .. 0 |-> h.blocks[c]]
  <2>1. f = Body(f, 0)
    OBVIOUS
  <2> QED
    BY <2>1
<1>2. ASSUME NEW n \in Nat, n \in S PROVE n + 1 \in S
  <2>1. PICK f : f = Body(f, n)
    BY <1>2
  <2> DEFINE g == [i \in 0 .. n + 1 |-> IF i = n + 1 THEN Onward(h, B, f[n]) ELSE f[i]]
  <2>2. ASSUME NEW i \in 0 .. n + 1
        PROVE  g[i] = IF i = 0 THEN h.blocks[c] ELSE Onward(h, B, g[i - 1])
    <3>1. CASE i = n + 1
      <4>1. g[n] = f[n] /\ i - 1 = n /\ g[i] = Onward(h, B, f[n]) /\ i # 0
        BY <3>1
      <4> HIDE DEF g
      <4> QED
        BY <3>1, <4>1
    <3>2. CASE i # n + 1
      <4>1. i \in 0 .. n /\ (i # 0 => i - 1 \in 0 .. n)
        BY <3>2
      <4>2. g[i] = f[i] /\ (i # 0 => g[i - 1] = f[i - 1])
        BY <4>1
      <4>3. f[i] = IF i = 0 THEN h.blocks[c] ELSE Onward(h, B, f[i - 1])
        BY <2>1, <4>1
      <4> HIDE DEF g
      <4> QED
        BY <4>2, <4>3
    <3> QED
      BY <3>1, <3>2
  <2>3. g = Body(g, n + 1)
    BY <2>2
  <2> HIDE DEF g
  <2> QED
    BY <2>3
<1> HIDE DEF S
<1>3. Nat \subseteq S
  BY <1>1, <1>2, SetInduction
<1> QED
  BY <1>3 DEF S, Steps

\* and Walk collects its values.
LEMMA WalkSteps ==
    ASSUME NEW c, Cardinality(Blocks) \in Nat
    PROVE  \E at : /\ DOMAIN at = 0 .. Cardinality(Blocks) /\ Walk(c) = {at[i] : i \in DOMAIN at}
                   /\ \A i \in 0 .. Cardinality(Blocks) :
                         at[i] = IF i = 0 THEN heap.blocks[c] ELSE Onward(heap, Blocks, at[i - 1])
<1> DEFINE k == Cardinality(Blocks)
           at == CHOOSE f : f = Steps(heap, c, Blocks, k, f)
<1>1. \E f : f = Steps(heap, c, Blocks, k, f)
  BY WalkExists
<1>2. Walk(c) = {at[i] : i \in DOMAIN at}
  BY DEF Walk, Steps, Onward
<1>3. at = Steps(heap, c, Blocks, k, at)
  BY <1>1
<1> HIDE DEF at
<1> QED
  BY <1>2, <1>3 DEF Steps

\* The walk meets the list, and then its end.
LEMMA WalkIs ==
    ASSUME NEW c, IsFiniteSet(Blocks), Blocks \subseteq Nat \ {0}, NEW N \in SUBSET Blocks, NEW s, NEW len,
           Listed(heap, c, N, s, len)
    PROVE  Walk(c) = N \cup {0}
<1> DEFINE k == Cardinality(Blocks)
<1>1. k \in Nat /\ len \in Nat
  BY FS_CardinalityType DEF Listed
<1>2. len <= k
  <2> DEFINE R == 1 .. len
  <2>1. IsFiniteSet(R) /\ Cardinality(R) = len
    BY <1>1, FS_Interval
  <2>2. s \in [R -> Blocks] /\ \A i, j \in R : s[i] = s[j] => i = j
    BY DEF Listed
  <2> HIDE DEF R
  <2>3. ~(k < Cardinality(R))
    BY <2>1, <2>2, FS_PigeonHole
  <2> QED
    BY <1>1, <2>1, <2>3
<1>3. PICK at : /\ DOMAIN at = 0 .. k /\ Walk(c) = {at[i] : i \in DOMAIN at}
                /\ \A i \in 0 .. k : at[i] = IF i = 0 THEN heap.blocks[c] ELSE Onward(heap, Blocks, at[i - 1])
  BY <1>1, WalkSteps
<1>4. /\ \A i \in 1 .. len : s[i] \in N /\ s[i] \in Blocks
      /\ \A n \in N : \E i \in 1 .. len : s[i] = n
      /\ heap.blocks[c] = (IF len = 0 THEN 0 ELSE s[1])
      /\ \A i \in 1 .. len : heap.mem[s[i]].next_free = (IF i = len THEN 0 ELSE s[i + 1])
      /\ 0 \notin Blocks
  BY DEF Listed, block_null
<1> HIDE DEF k
<1> DEFINE At(j) == at[j] = IF j < len THEN s[j + 1] ELSE 0
           S == {j \in Nat : j <= k => At(j)}
<1>5. 0 \in S
  BY <1>1, <1>3, <1>4
<1>6. ASSUME NEW j \in Nat, j \in S PROVE j + 1 \in S
  <2> SUFFICES ASSUME j + 1 <= k PROVE At(j + 1)
    OBVIOUS
  <2>1. At(j) /\ j + 1 \in 0 .. k /\ j + 1 # 0 /\ (j + 1) - 1 = j
    BY <1>1, <1>6
  <2>2. at[j + 1] = Onward(heap, Blocks, at[j])
    BY <1>3, <2>1
  <2>3. CASE j < len
    <3>1. j + 1 \in 1 .. len
      BY <1>1, <2>3
    <3>2. at[j] = s[j + 1] /\ s[j + 1] \in Blocks
      BY <1>4, <2>1, <2>3, <3>1
    <3>3. heap.mem[s[j + 1]].next_free = (IF j + 1 = len THEN 0 ELSE s[(j + 1) + 1])
      BY <1>4, <3>1
    <3>4. j + 1 < len <=> j + 1 # len
      BY <1>1, <2>3
    <3> QED
      BY <2>2, <3>2, <3>3, <3>4 DEF Onward
  <2>4. CASE ~(j < len)
    <3>1. ~(j + 1 < len)
      BY <1>1, <2>4
    <3> QED
      BY <1>4, <2>1, <2>2, <2>4, <3>1 DEF Onward
  <2> QED
    BY <2>3, <2>4
<1> HIDE DEF S
<1>7. Nat \subseteq S
  BY <1>5, <1>6, SetInduction
<1>8. \A i \in 0 .. k : At(i)
  BY <1>1, <1>7 DEF S
<1>9. ASSUME NEW i \in 0 .. k PROVE at[i] \in N \cup {0}
  BY <1>1, <1>4, <1>8
<1>10. \E i \in 0 .. k : at[i] = 0
  BY <1>1, <1>2, <1>8
<1>11. ASSUME NEW n \in N PROVE \E i \in 0 .. k : at[i] = n
  <2>1. PICK j \in 1 .. len : s[j] = n
    BY <1>4
  <2>2. j - 1 \in 0 .. k /\ j - 1 < len /\ (j - 1) + 1 = j
    BY <1>1, <1>2
  <2> QED
    BY <1>8, <2>1, <2>2
<1>12. Walk(c) \subseteq N \cup {0}
  BY <1>3, <1>9
<1>13. N \cup {0} \subseteq Walk(c)
  BY <1>3, <1>10, <1>11
<1> QED
  BY <1>12, <1>13

\* An exact index is what FreeIndexExact says.
LEMMA ListsAre ==
    ASSUME HeapType(heap), IsFiniteSet(Blocks), Blocks \subseteq Nat \ {0}, NEW N,
           N = {b \in Blocks : heap.mem[b].is_free}, Index(heap, N),
           \A b \in N : mapping_insert(heap.mem[b].size) \in Classes
    PROVE  FreeIndexExact
<1>1. BitmapsExact
  BY DEF BitmapsExact, Index, Bitmaps, Classes, block_null
<1>2. ASSUME NEW c \in FLs \X SLs
      PROVE  Walk(c) = {b \in Blocks : heap.mem[b].is_free /\ mapping_insert(heap.mem[b].size) = c} \cup {block_null}
  <2> DEFINE M == Members(heap, N, c)
  <2>1. PICK s, len : Listed(heap, c, M, s, len)
    BY DEF Index, IsListed, Classes
  <2>2. M \in SUBSET Blocks
    BY DEF Members
  <2>3. M = {b \in Blocks : heap.mem[b].is_free /\ mapping_insert(heap.mem[b].size) = c}
    BY DEF Members
  <2> HIDE DEF M
  <2>4. Walk(c) = M \cup {0}
    BY <2>1, <2>2, WalkIs
  <2> QED
    BY <2>3, <2>4 DEF block_null
<1>3. ASSUME NEW b \in Blocks, heap.mem[b].is_free
      PROVE  LET n == heap.mem[b].next_free
                 p == heap.mem[b].prev_free
             IN  /\ n # block_null => heap.mem[n].prev_free = b
                 /\ p = block_null <=> heap.blocks[mapping_insert(heap.mem[b].size)] = b
  <2> DEFINE c == mapping_insert(heap.mem[b].size)
             M == Members(heap, N, c)
  <2>1. b \in N /\ c \in Classes
    BY <1>3
  <2>2. PICK s, len : Listed(heap, c, M, s, len)
    BY <2>1 DEF Index, IsListed
  <2>3. M \in SUBSET (Nat \ {0}) /\ b \in M
    BY <2>1 DEF Members
  <2> HIDE DEF M, c
  <2>4. /\ (heap.blocks[c] = b) <=> (heap.mem[b].prev_free = 0)
        /\ heap.mem[b].next_free # 0 => heap.mem[heap.mem[b].next_free].prev_free = b
    BY <2>2, <2>3, ListedLinks
  <2> QED
    BY <2>4 DEF c, block_null
<1> QED
  BY <1>1, <1>2, <1>3 DEF FreeIndexExact, ListsExact

\* Whatever threads ask of the allocator, a walk along next_free from each list
\* head meets exactly the free blocks of that class and ends, prev_free leads
\* back, and both levels of bitmaps say which lists hold a block: what
\* controller_remove_free_block and controller_search_suitable_block rely on.
THEOREM IndexIsExact == Spec => []FreeIndexExact
<1>1. ASSUME IInv PROVE FreeIndexExact
  <2>1. CASE heap = controller_new
    <3>1. Blocks = {} /\ HeapType(heap) /\ Index(heap, {}) /\ IsFiniteSet({})
      BY <2>1, NoBlocks, NewIs, FS_EmptySet
    <3> QED
      BY <3>1, ListsAre
  <2>2. ASSUME NEW T, HeapInv(heap, T) PROVE FreeIndexExact
    <3>1. /\ Blocks = Dom(heap) \ {T} /\ {b \in Blocks : heap.mem[b].is_free} = FreeOf(heap)
          /\ Blocks \subseteq Nat \ {0} /\ IsFiniteSet(Blocks)
      BY <2>2, BlocksAre
    <3>2. Tags(heap, T) /\ HeapType(heap) /\ Index(heap, FreeOf(heap))
      BY <2>2 DEF HeapInv, Tags
    <3>3. \A b \in FreeOf(heap) : mapping_insert(heap.mem[b].size) \in Classes
      BY <3>1, <3>2, FreeClass
    <3> QED
      BY <3>1, <3>2, <3>3, ListsAre
  <2> QED
    BY <1>1, <2>1, <2>2, IInvCases
<1> QED
  BY <1>1, Invariant, PTL

-----------------------------------------------------------------------------
(* The arena                                                               *)

\* What the clients hold, as the arena sees it.
Regions(l) == [p \in DOMAIN l |-> l[p].size]

\* What the clients hold lies apart, inside the heap.
LEMMA HeldApart ==
    ASSUME NEW h, NEW l, NEW T, HeldIn(h, l, T), NEW p \in DOMAIN l
    PROVE  /\ ArenaOf!Bytes(p, l[p].size) \subseteq htfh_size .. HeapEnd - 1
           /\ \A q \in DOMAIN l \ {p} : ArenaOf!Bytes(p, l[p].size) \cap ArenaOf!Bytes(q, l[q].size) = {}
<1>1. Tags(h, T)
  BY DEF HeldIn, HeapInv
<1>2. /\ htfh_size \in Nat /\ FirstBlock = htfh_size - 8 /\ T \in Nat /\ block_size_max \in Nat
      /\ T < htfh_size + block_size_max /\ HeapEnd = htfh_size + block_size_max + 16
  <2>1. htfh_size \in Nat /\ FirstBlock = htfh_size - 8 /\ T \in Nat /\ block_size_max \in Nat
    BY <1>1, HtfhSize, TagsType
  <2>2. T < FirstBlock + 8 + block_size_max
    BY <1>1 DEF Tags, Ends
  <2>3. HeapEnd = htfh_size + block_size_max + 16
    BY DEF HeapEnd, htfh_pool_overhead, block_header_overhead, Word
  <2> QED
    BY <2>1, <2>2, <2>3
<1>3. ASSUME NEW q \in DOMAIN l
      PROVE  \E b, e \in Nat :
                /\ b = q - 16 /\ q \in Nat /\ l[q].size \in Nat /\ q + l[q].size <= e + 8
                /\ htfh_size <= b + 8 /\ e <= T /\ e \in Dom(h) /\ b \in Dom(h)
                /\ \A a \in Dom(h) : a <= b \/ e <= a
  <2> DEFINE b == q - 16
             e == block_next(h, b)
  <2>1. q \in Nat /\ b \in UsedOf(h, T) /\ l[q].size \in Nat /\ l[q].size <= h.mem[b].size
    BY DEF HeldIn
  <2> HIDE DEF b
  <2>2. b \in Dom(h) \ {T}
    BY <2>1 DEF UsedOf
  <2>3. /\ b \in Nat /\ h.mem[b].size \in Nat /\ e = b + 8 + h.mem[b].size /\ e \in Dom(h) /\ e \in Nat /\ e <= T
        /\ \A a \in Dom(h) : a <= b \/ e <= a
    BY <1>1, <2>2, NextIs
  <2>4. FirstBlock <= b
    BY <1>1, <2>2, TagsType
  <2> HIDE DEF e
  <2>5. b = q - 16
    BY DEF b
  <2>6. q + l[q].size <= e + 8 /\ htfh_size <= b + 8
    BY <1>2, <2>1, <2>3, <2>4, <2>5
  <2> QED
    BY <2>1, <2>2, <2>3, <2>5, <2>6
<1>4. \A q \in DOMAIN l : ArenaOf!Bytes(q, l[q].size) = (q - 8) .. (q + l[q].size - 1)
  BY DEF ArenaOf!Bytes, block_header_overhead, Word
<1>5. PICK b, e \in Nat :
         /\ b = p - 16 /\ p \in Nat /\ l[p].size \in Nat /\ p + l[p].size <= e + 8
         /\ htfh_size <= b + 8 /\ e <= T /\ e \in Dom(h) /\ b \in Dom(h)
         /\ \A a \in Dom(h) : a <= b \/ e <= a
  BY <1>3
<1>6. ArenaOf!Bytes(p, l[p].size) \subseteq htfh_size .. HeapEnd - 1
  <2>1. htfh_size <= p - 8 /\ p + l[p].size <= HeapEnd /\ HeapEnd \in Nat
    BY <1>2, <1>5
  <2> DEFINE z == p + l[p].size
  <2>2. z \in Nat /\ z <= HeapEnd /\ ArenaOf!Bytes(p, l[p].size) = p - 8 .. z - 1
    BY <1>4, <1>5, <2>1
  <2> HIDE DEF z
  <2>3. p - 8 .. z - 1 \subseteq htfh_size .. HeapEnd - 1
    BY <1>2, <1>5, <2>1, <2>2
  <2> QED
    BY <2>2, <2>3
<1>7. ASSUME NEW q \in DOMAIN l \ {p}
      PROVE  ArenaOf!Bytes(p, l[p].size) \cap ArenaOf!Bytes(q, l[q].size) = {}
  <2>1. PICK c, f \in Nat :
         /\ c = q - 16 /\ q \in Nat /\ l[q].size \in Nat /\ q + l[q].size <= f + 8
         /\ f \in Dom(h) /\ c \in Dom(h)
         /\ \A a \in Dom(h) : a <= c \/ f <= a
    BY <1>3
  <2>2. (c <= b \/ e <= c) /\ (b <= c \/ f <= b)
    BY <1>5, <2>1
  <2>3. p + l[p].size <= q - 8 \/ q + l[q].size <= p - 8
    BY <1>5, <2>1, <2>2
  <2> DEFINE y == p + l[p].size
             z == q + l[q].size
  <2>4. ArenaOf!Bytes(p, l[p].size) = (p - 8) .. (y - 1)
    BY <1>4, <1>5
  <2>b. ArenaOf!Bytes(q, l[q].size) = (q - 8) .. (z - 1)
    BY <1>4, <2>1
  <2>a. y \in Nat /\ z \in Nat /\ (y <= q - 8 \/ z <= p - 8)
    BY <1>5, <2>1, <2>3
  <2> HIDE DEF y, z
  <2>5. ((p - 8) .. (y - 1)) \cap ((q - 8) .. (z - 1)) = {}
    <3>1. ASSUME NEW x \in Int, p - 8 <= x, x <= y - 1, q - 8 <= x, x <= z - 1 PROVE FALSE
      BY <1>5, <2>1, <2>a, <3>1
    <3> QED
      BY <1>5, <2>1, <2>a, <3>1
  <2> QED
    BY <2>4, <2>5, <2>b
<1> QED
  BY <1>6, <1>7

\* What a client is given was vacant.
LEMMA GivenVacant ==
    ASSUME NEW g, NEW l, NEW T, NEW p, p \notin DOMAIN l, NEW n, NEW A, HeldIn(g, More(l, p, n, A), T)
    PROVE  ArenaOf!Vacant(Regions(l), p, n)
<1> DEFINE k == More(l, p, n, A)
<1>1. DOMAIN k = DOMAIN l \cup {p} /\ k[p].size = n /\ \A q \in DOMAIN l : k[q] = l[q]
  BY DEF More
<1> HIDE DEF k
<1>2. /\ ArenaOf!Bytes(p, n) \subseteq htfh_size .. HeapEnd - 1
      /\ \A q \in DOMAIN k \ {p} : ArenaOf!Bytes(p, n) \cap ArenaOf!Bytes(q, k[q].size) = {}
  <2>1. HeldIn(g, k, T) /\ p \in DOMAIN k
    BY <1>1 DEF k
  <2> QED
    BY <1>1, <2>1, HeldApart
<1>3. DOMAIN Regions(l) = DOMAIN l /\ \A q \in DOMAIN l : Regions(l)[q] = k[q].size /\ q # p /\ q \in DOMAIN k
  BY <1>1 DEF Regions
<1> QED
  BY <1>2, <1>3 DEF ArenaOf!Vacant

\* The client is given a region that nobody held.
LEMMA GrantIs ==
    ASSUME IInv, NEW m, NEW n \in Nat, NEW A \in Nat, Takes(m, n, A),
           heap = controller_new => m.ptr = NULL,
           \A T : HeapInv(heap, T) => Granted(heap, m, T, n),
           m.ptr # NULL /\ A >= 4 * ALIGN_SIZE => m.ptr % A = 0
    PROVE  live' = live \/ ArenaOf!Grant
<1> DEFINE p == m.ptr
           R == Regions(live)
<1>1. live' = IF p = NULL THEN live ELSE More(live, p, n, A)
  BY DEF Takes, Given, More
<1>2. CASE p # NULL
  <2>1. PICK T : HeldIn(heap, live, T)
    BY <1>2 DEF IInv
  <2>2. HeldIn(m.h, More(live, p, n, A), T) /\ p \notin DOMAIN live
    BY <1>2, <2>1, HeldGrant DEF HeldIn
  <2>3. live' = More(live, p, n, A)
    BY <1>1, <1>2
  <2> HIDE DEF p
  <2>4. ArenaOf!Vacant(R, p, n)
    BY <2>2, GivenVacant
  <2>5. Regions(live') = [q \in DOMAIN R \cup {p} |-> IF q = p THEN n ELSE R[q]]
    BY <2>2, <2>3 DEF Regions, More
  <2>6. p \in DOMAIN Regions(live') /\ Regions(live')[p] = n /\ p \notin DOMAIN R
    BY <2>2, <2>5 DEF Regions
  <2>7. ArenaOf!Vacant(R, p, Regions(live')[p])
    BY <2>4, <2>6
  <2>8. ArenaOf!Hold(p, Regions(live')[p]) = [q \in DOMAIN R \cup {p} |-> IF q = p THEN n ELSE R[q]]
    BY <2>6 DEF ArenaOf!Hold, Regions
  <2>9. Regions(live') = ArenaOf!Hold(p, Regions(live')[p])
    BY <2>5, <2>8
  <2>10. p \in DOMAIN Regions(live') \ DOMAIN Regions(live)
    BY <2>6
  <2> QED
    BY <2>7, <2>9, <2>10, Zenon DEF ArenaOf!Grant, Regions
<1> QED
  BY <1>1, <1>2

\* A region given back.
LEMMA ReturnIs ==
    ASSUME NEW p \in DOMAIN live, live' = Less(live, p)
    PROVE  ArenaOf!Return
BY DEF ArenaOf!Return, ArenaOf!Drop, Less

\* A copy is taken when the request is larger than the block.
LEMMA CopyLarger ==
    ASSUME NEW T, HeldIn(heap, live, T), NEW p \in DOMAIN live, NEW n \in Nat, n + ALIGN_SIZE <= 2 ^ SizeBits,
           realloc_copies(heap, p - 16, n)
    PROVE  live[p].size < n
<1> DEFINE b == p - 16
           z == heap.mem[b].size
           a == adjust_request_size(n, ALIGN_SIZE)
<1>1. b \in UsedOf(heap, T) /\ live[p].size \in Nat /\ live[p].size <= z /\ Tags(heap, T)
  BY DEF HeldIn, HeapInv
<1>2. b \in Dom(heap) \ {T}
  BY <1>1 DEF UsedOf
<1>3. z \in Nat /\ z >= 24 /\ Aligned(z)
  BY <1>1, <1>2, NextIs DEF Tags
<1>4. a \in Nat /\ Aligned(a) /\ (a # 0 => a >= 24 /\ n <= a /\ (a > 24 => a < n + ALIGN_SIZE))
  BY AdjustIs
<1>5. a > z
  BY DEF realloc_copies
<1> HIDE DEF b, z, a
<1>6. z < n
  <2>1. CASE ALIGN_SIZE = 4
    BY <1>3, <1>4, <1>5, <2>1 DEF Aligned
  <2>2. CASE ALIGN_SIZE = 8
    BY <1>3, <1>4, <1>5, <2>2 DEF Aligned
  <2> QED
    BY <2>1, <2>2, Constants
<1> QED
  BY <1>1, <1>3, <1>6

\* A realloc by copying: the old region and the new one are apart, and the new
\* one is larger.
LEMMA MoveIs ==
    ASSUME NEW T, HeldIn(heap, live, T), NEW p \in DOMAIN live, NEW n \in Nat, n + ALIGN_SIZE <= 2 ^ SizeBits,
           realloc_copies(heap, p - 16, n), NEW q, q \notin DOMAIN live,
           NEW g, HeldIn(g, More(live, q, n, ALIGN_SIZE), T),
           live' = Less(More(live, q, n, ALIGN_SIZE), p)
    PROVE  ArenaOf!Move
<1> DEFINE R == Regions(live)
<1>1. ArenaOf!Vacant(R, q, n)
  BY GivenVacant
<1>2. live[p].size < n /\ live[p].size \in Nat
  BY CopyLarger DEF HeldIn
<1>3. Regions(live') = [a \in (DOMAIN R \ {p}) \cup {q} |-> IF a = q THEN n ELSE R[a]]
  BY DEF Regions, Less, More
<1>4. q \in DOMAIN Regions(live') /\ Regions(live')[q] = n /\ q \notin DOMAIN R /\ p \in DOMAIN R /\ R[p] = live[p].size
  BY <1>3 DEF Regions
<1>5. Regions(live')[q] > R[p]
  BY <1>2, <1>4
<1>6. ArenaOf!Vacant(R, q, Regions(live')[q])
  BY <1>1, <1>4
<1>7. Regions(live') = [a \in (DOMAIN R \ {p}) \cup {q} |-> IF a = q THEN Regions(live')[q] ELSE R[a]]
  BY <1>3, <1>4
<1>8. p \in DOMAIN R /\ q \in DOMAIN Regions(live') \ DOMAIN R
  BY <1>4
<1> QED
  BY <1>5, <1>6, <1>7, <1>8, Zenon DEF ArenaOf!Move, Regions

\* Every call is a step of the arena, or changes nothing that clients hold.
LEMMA ArenaStep ==
    ASSUME IInv, [Next]_vars
    PROVE  live' = live \/ ArenaOf!Next
<1>1. CASE UNCHANGED vars
  BY <1>1 DEF vars
<1>2. ASSUME NEW bytes \in HeapSizes, htfh_create(bytes) PROVE live' = live
  BY <1>2 DEF htfh_create
<1>3. ASSUME NEW t \in Threads, htfh_destroy(t) PROVE ArenaOf!Reset
  BY <1>3 DEF htfh_destroy, ArenaOf!Reset
<1>a. ASSUME NEW n \in Nat, n + ALIGN_SIZE <= 2 ^ SizeBits, Takes(htfh_malloc(heap, n), n, ALIGN_SIZE)
      PROVE  live' = live \/ ArenaOf!Grant
  <2> DEFINE m == htfh_malloc(heap, n)
  <2>1. heap = controller_new => m.ptr = NULL
    BY <1>a, EmptyGrants
  <2>2. \A T : HeapInv(heap, T) => Granted(heap, m, T, n)
    BY <1>a, MallocKeeps
  <2>3. ALIGN_SIZE \in Nat /\ ~(ALIGN_SIZE >= 4 * ALIGN_SIZE)
    BY Constants
  <2>4. Takes(m, n, ALIGN_SIZE)
    BY <1>a
  <2> HIDE DEF m
  <2> QED
    BY <2>1, <2>2, <2>3, <2>4, GrantIs
<1>4. ASSUME NEW t \in Threads, NEW n \in Sizes, Malloc(t, n) PROVE live' = live \/ ArenaOf!Grant
  BY <1>4, <1>a, RequestIs DEF Malloc
<1>5. ASSUME NEW t \in Threads, NEW count \in Counts, NEW bytes \in Sizes, htfh_calloc(t, count, bytes)
      PROVE  live' = live \/ ArenaOf!Grant
  <2> DEFINE n == count * bytes
  <2>1. n \in Nat /\ n + ALIGN_SIZE <= 2 ^ SizeBits /\ size_t(n) = n
    BY RequestIs
  <2>2. Takes(htfh_malloc(heap, size_t(n)), n, ALIGN_SIZE)
    BY <1>5 DEF htfh_calloc
  <2> HIDE DEF n
  <2> QED
    BY <1>a, <2>1, <2>2
<1>6. ASSUME NEW t \in Threads, NEW b \in Blocks, Free(t, block_to_ptr(b))
      PROVE  live' = live \/ ArenaOf!Return
  <2>1. block_to_ptr(b) = b + 16
    BY DEF block_to_ptr, block_start_offset, Word
  <2> DEFINE p == b + 16
  <2>2. live' = live \/ (p \in DOMAIN live /\ live' = Less(live, p))
    BY <1>6, <2>1, FreeStep
  <2> HIDE DEF p
  <2> QED
    BY <2>2, ReturnIs
<1>7. ASSUME NEW t \in Threads, NEW A \in Aligns, NEW n \in Sizes, Memalign(t, A, n)
      PROVE  live' = live \/ ArenaOf!Grant
  <2> DEFINE m == htfh_memalign(heap, A, n)
  <2>1. n \in Nat /\ n + ALIGN_SIZE <= 2 ^ SizeBits /\ A \in Nat
    BY RequestIs, AlignIs
  <2>2. heap = controller_new => m.ptr = NULL
    BY <2>1, EmptyGrants
  <2>3. \A T : HeapInv(heap, T) => Granted(heap, m, T, n) /\ (m.ptr # NULL /\ A >= 4 * ALIGN_SIZE => m.ptr % A = 0)
    BY <2>1, MemalignKeeps
  <2>4. Takes(m, n, A)
    BY <1>7 DEF Memalign
  <2> HIDE DEF m
  <2>5. m.ptr # NULL /\ A >= 4 * ALIGN_SIZE => m.ptr % A = 0
    BY <2>2, <2>3, IInvCases
  <2> QED
    BY <2>1, <2>2, <2>3, <2>4, <2>5, GrantIs
<1>8. ASSUME NEW t \in Threads, NEW p \in DOMAIN live, Free(t, p) PROVE live' = live \/ ArenaOf!Return
  BY <1>8, FreeStep, ReturnIs
<1>9. ASSUME NEW t \in Threads, NEW p \in DOMAIN live, NEW n \in Sizes \ {0}, Realloc(t, p, n)
      PROVE  live' = live \/ ArenaOf!Move
  <2> DEFINE m == htfh_malloc(heap, n)
             k == More(live, m.ptr, n, ALIGN_SIZE)
  <2>1. n \in Nat /\ n + ALIGN_SIZE <= 2 ^ SizeBits
    BY RequestIs
  <2>2. PICK T : /\ HeldIn(heap, live, T)
                 /\ \/ live' = live
                    \/ /\ realloc_copies(heap, p - 16, n)
                       /\ m.ptr \notin DOMAIN live /\ HeldIn(m.h, k, T)
                       /\ live' = Less(k, p)
    BY <1>9, ReallocIs
  <2> HIDE DEF m
  <2> QED
    BY <2>1, <2>2, MoveIs
<1> QED
  BY <1>1, <1>2, <1>3, <1>4, <1>5, <1>6, <1>7, <1>8, <1>9 DEF Next, ReallocNull, ReallocZero, ArenaOf!Next

\* The allocator implements the arena for any widths, pool, threads and
\* requests: what htfh_malloc, htfh_calloc, htfh_memalign and htfh_realloc give
\* out lies inside the pool, apart from every other region held and from every
\* region's size word, and stays until its client frees it or has it copied into
\* a larger one.
THEOREM AllocatorIsArena == Spec => ImplementsArena
<1>1. Init => ArenaOf!Init
  BY DEF Init, ArenaOf!Init
<1>2. IInv /\ [Next]_vars => [ArenaOf!Next]_[p \in DOMAIN live |-> live[p].size]
  <2> SUFFICES ASSUME IInv, [Next]_vars PROVE [ArenaOf!Next]_[p \in DOMAIN live |-> live[p].size]
    OBVIOUS
  <2>1. live' = live \/ ArenaOf!Next
    BY ArenaStep
  <2> QED
    BY <2>1
<1> QED
  BY <1>1, <1>2, Invariant, PTL DEF Spec, ImplementsArena, ArenaOf!Spec
=============================================================================
