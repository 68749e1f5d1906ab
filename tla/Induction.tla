------------------------------ MODULE Induction ------------------------------
(***************************************************************************)
(* Induction over the naturals with the property given as a set, and the   *)
(* arithmetic of remainders: what the proofs about recursive functions and *)
(* about probing rest on.                                                  *)
(***************************************************************************)
EXTENDS Integers, FiniteSetsExt, WellFoundedInduction, TLAPS

\* Every nonempty set of naturals has a least element.
LEMMA LeastNat ==
    ASSUME NEW T \in SUBSET Nat, T # {}
    PROVE  \E n \in T : \A m \in T : n <= m
<1> DEFINE R == OpToRel(<, Nat)
<1>1. IsWellFoundedOn(R, Nat)
  BY NatLessThanWellFounded
<1>2. \A i, j \in Nat : i < j => <<i, j>> \in R
  BY DEF OpToRel
<1> HIDE DEF R
<1>3. PICK n \in T : \A m \in T : ~(<<m, n>> \in R)
  BY <1>1, WFMin
<1>4. \A m \in T : m \in Nat /\ n \in Nat /\ ~(m < n)
  BY <1>2, <1>3
<1>5. \A m \in T : n <= m
  BY <1>4
<1> QED
  BY <1>5

\* The minimum of a nonempty set of naturals, as the probe loops compute it.
LEMMA MinIs ==
    ASSUME NEW T \in SUBSET Nat, T # {}
    PROVE  Min(T) \in T /\ \A m \in T : Min(T) <= m
BY LeastNat DEF Min

\* A set that holds 0 and, with every natural, the next one holds them all.
LEMMA SetInduction ==
    ASSUME NEW S, 0 \in S, \A n \in Nat : n \in S => n + 1 \in S
    PROVE  Nat \subseteq S
<1> SUFFICES ASSUME Nat \ S # {} PROVE FALSE
  OBVIOUS
<1>1. PICK n \in Nat \ S : \A m \in Nat \ S : n <= m
  BY LeastNat
<1>2. n \in Nat /\ n # 0
  BY <1>1
<1>3. n - 1 \in Nat /\ ~(n <= n - 1) /\ (n - 1) + 1 = n
  BY <1>2
<1>4. n - 1 \in S
  BY <1>1, <1>3
<1> QED
  BY <1>1, <1>3, <1>4

\* Quotient and remainder are unique.
LEMMA ModUnique ==
    ASSUME NEW s \in Nat \ {0}, NEW q \in Int, NEW j \in 0 .. s - 1
    PROVE  (s * q + j) % s = j
<1> DEFINE x == s * q + j
           p == x \div s
           m == x % s
<1>1. x \in Int /\ p \in Int /\ m \in 0 .. s - 1 /\ x = s * p + m
  OBVIOUS
<1>2. s * p + m = s * q + j
  BY <1>1
<1> HIDE DEF x, p, m
<1>3. s * (p - q) = j - m
  BY <1>1, <1>2
<1>4. CASE p > q
  <2>1. p - q >= 1
    BY <1>1, <1>4
  <2>2. s * (p - q) >= s
    BY <1>1, <2>1
  <2> QED
    BY <1>1, <1>3, <2>2
<1>5. CASE p < q
  <2>1. q - p >= 1
    BY <1>1, <1>5
  <2>2. s * (q - p) >= s /\ s * (q - p) = 0 - s * (p - q)
    BY <1>1, <2>1
  <2> QED
    BY <1>1, <1>3, <2>2
<1>6. CASE p = q
  <2>1. m = j
    BY <1>1, <1>2, <1>6
  <2> QED
    BY <2>1 DEF m, x
<1> QED
  BY <1>1, <1>4, <1>5, <1>6

\* Probing linearly from any hash value reaches every slot of the table.
LEMMA ModOnto ==
    ASSUME NEW s \in Nat \ {0}, NEW h \in Nat, NEW j \in 0 .. s - 1
    PROVE  \E i \in 0 .. s - 1 : (h + i) % s = j
<1> DEFINE q == h \div s
           m == h % s
<1>1. q \in Int /\ m \in 0 .. s - 1 /\ h = s * q + m
  OBVIOUS
<1> HIDE DEF q, m
<1>2. CASE j >= m
  <2>1. j - m \in 0 .. s - 1 /\ h + (j - m) = s * q + j
    BY <1>1, <1>2
  <2> QED
    BY <1>1, <2>1, ModUnique
<1>3. CASE j < m
  <2>1. (j - m) + s \in 0 .. s - 1 /\ h + ((j - m) + s) = s * (q + 1) + j
    BY <1>1, <1>3
  <2>2. (s * (q + 1) + j) % s = j
    BY <1>1, ModUnique
  <2> QED
    BY <2>1, <2>2
<1> QED
  BY <1>1, <1>2, <1>3
=============================================================================
