----------------------------- MODULE DLIRSSizes -----------------------------
(***************************************************************************)
(* The sizes a DLIRS is created with, and the arithmetic that turns them   *)
(* into the two limits (dlirs_create and dlirs_resize of                   *)
(* src/src/cache/dlirs/dlirs.c).                                           *)
(***************************************************************************)
EXTENDS Integers

CONSTANTS
    Keys,         \* search keys
    Gens,         \* names for the objects of one key that exist together
    CacheSize,    \* cache_size given to dlirs_create
    HirsPercent,  \* options->hirs_ratio, in hundredths
    SIZE_MAX,     \* largest size_t: what decrementing 0 gives
    Recheck,      \* the client asks cache_contains again before a request
    NULL

\* a DLIRSEntry object: its key and its name among the objects of that key
Entries == Keys \X Gens
KeyOf(e) == e[1]

(* The result of rint(n / d + 0.5) with d > 0: a whole n / d lies between  *)
(* two integers after the addition and goes to the even one.               *)
RintHalf(n, d) ==
    LET q == n \div d
    IN  IF n % d # 0 THEN q + 1 ELSE IF q % 2 = 0 THEN q ELSE q + 1

AtLeastOne(n) == IF n < 1 THEN 1 ELSE n

InitialHirsLimit == AtLeastOne(RintHalf(CacheSize * HirsPercent, 100))

(* How far dlirs_resize moves a limit.  A zero divisor gives NaN for 0 / 0 *)
(* (fmax answers 1) and infinity otherwise (fmin answers the bound).       *)
Gain(n, d) ==
    IF d = 0 THEN IF n = 0 THEN 1 ELSE CacheSize ELSE AtLeastOne(RintHalf(n, d))

ASSUME SizeAssumption == CacheSize \in Nat /\ CacheSize >= 2
ASSUME RatioAssumption ==
    HirsPercent \in Nat /\ InitialHirsLimit \in 1 .. CacheSize - 1

\* Sums of the counters of a cache of this size fit an int.
ASSUME SizeMaxAssumption == SIZE_MAX \in Nat /\ SIZE_MAX >= 8 * CacheSize
ASSUME RecheckAssumption == Recheck \in BOOLEAN
ASSUME NullAssumption == NULL \notin Entries
=============================================================================
