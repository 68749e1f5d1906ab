-------------------------------- MODULE Keys --------------------------------
(***************************************************************************)
(* The search keys of cache/cache_key.h, the bytes cache/hashtable/        *)
(* hashing.h hashes of them, and the two comparators of main.c.            *)
(*                                                                         *)
(* A key is one block of bytes: the operator, two size_t sizes, and the    *)
(* terms with their terminators.  A term stands for its characters; what   *)
(* is kept of the bytes is where each term begins, because the accessors   *)
(* read a stored size back through one signed char and so can land inside  *)
(* another term or outside the block.                                      *)
(*                                                                         *)
(* A query is looked up among stored keys.  A stored key is a clone, made  *)
(* from the client's key or from another stored one.                       *)
(***************************************************************************)
EXTENDS Integers, Sequences

CONSTANTS
    Term,        \* the terms of queries, none of them the end of another
    Length(_),   \* strlen of a term
    NULL

SINGLE_OP == "0"
AND_OP == "^"
OR_OP == "|"

ASSUME LengthAssumption == \A t \in Term : Length(t) \in Nat
ASSUME TermAssumption == NULL \notin Term

SizeofSizeT == 8
Header == 1 + 2 * SizeofSizeT
SprintBuffer == 100   \* the block key_sprint allocates for two terms
Fault == 2            \* no answer: memory outside a block was read or written

VARIABLES
    asked, kept,           \* the queries the two keys were created for
    query, stored,         \* the key blocks
    found,                 \* the bytes read as the Result's term flags
    partialCacheMatches,
    comparator,            \* "cmp": default_key_compare; "query": key_compare
    verdict                \* NULL, the comparator's answer, or Fault

vars == <<asked, kept, query, stored, found, partialCacheMatches, comparator, verdict>>

-----------------------------------------------------------------------------
(* Strings in memory                                                       *)

\* the end of term t from its character skip on; all empty strings are equal
Str(t, skip) == IF skip = Length(t) THEN [term |-> NULL, skip |-> 0]
                                    ELSE [term |-> t, skip |-> skip]
Wild == [term |-> "wild", skip |-> 0]   \* memory that belongs to no term of the key

strlen(s) == IF s.term = NULL THEN 0 ELSE Length(s.term) - s.skip

\* (size_t) *(char*) of a size_t: its low byte, with a sign.  What a negative
\* one becomes is added modulo 2^64 to a pointer or to a length.
CharRead(n) == LET low == n % 256 IN IF low > 127 THEN low - 256 ELSE low

\* The string that begins at byte o after the header.  text holds the terms
\* in the order in which they were written.
InText(k, o) ==
    IF o >= 0 /\ o < k.t1Size THEN Str(k.text[1].term, k.text[1].skip + o)
    ELSE IF o >= k.t1Size /\ o < k.t1Size + k.t2Size
    THEN Str(k.text[2].term, k.text[2].skip + o - k.t1Size)
    ELSE Wild

\* the empty string has no term to skip in, and is never looked into
StringAt(k, o) ==
    IF o = 0 THEN k.text[1]
    ELSE IF o = k.t1Size /\ k.t2Size > 0 THEN k.text[2] ELSE InText(k, o)

-----------------------------------------------------------------------------
(* cache_key.h                                                             *)

\* term2 is NULL for a single term
key_create(op, term1, term2) ==
    [op |-> op, t1Size |-> strlen(term1) + 1,
     t2Size |-> IF term2 = NULL THEN 0 ELSE strlen(term2) + 1,
     text |-> IF term2 = NULL THEN <<term1>> ELSE <<term1, term2>>]

Allocated(k) == Header + k.t1Size + k.t2Size

key_get_term1(k) == StringAt(k, 0)
key_get_term2(k) ==
    IF k.op = SINGLE_OP THEN NULL ELSE StringAt(k, CharRead(k.t1Size))

\* key_get_length computes the same
key_sizeMutant(k) == Header + CharRead(k.t1Size)
key_size(k) ==
    Header + CharRead(k.t1Size) + IF k.op = SINGLE_OP THEN 0 ELSE CharRead(k.t2Size)

key_cloneMutant(k) ==
    IF k.op = SINGLE_OP THEN k ELSE key_create(k.op, key_get_term2(k), key_get_term1(k))

\* key_clone; key_copy is key_create on the same three reads
key_clone(k) == key_create(k.op, key_get_term1(k), key_get_term2(k))

\* key_sprint writes both terms, the operator and a terminator
Sprintable(k) ==
    \/ k.op = SINGLE_OP
    \/ /\ key_get_term2(k) # Wild
       /\ strlen(key_get_term1(k)) + 1 + strlen(key_get_term2(k)) + 1 <= SprintBuffer

\* the answer for a missing key
AnswerNull(k1, k2) == IF k1 = NULL /\ k2 = NULL THEN 0 ELSE IF k1 = NULL THEN -1 ELSE 1

Verdict(same) == IF same THEN 0 ELSE 1

key_cmp(k1, k2) ==
    IF NULL \in {k1, k2} THEN AnswerNull(k1, k2)
    ELSE IF ~(Sprintable(k1) /\ Sprintable(k2)) THEN Fault
    ELSE Verdict(/\ k1.op = k2.op
                 /\ key_get_term1(k1) = key_get_term1(k2)
                 /\ k1.op = SINGLE_OP \/ key_get_term2(k1) = key_get_term2(k2))

\* What fnv1a_hash and meiyan_hash walk over, key_size bytes from the start:
\* the whole block, or else NULL.
Hashed(k) == IF key_size(k) = Allocated(k) THEN k ELSE NULL

-----------------------------------------------------------------------------
(* main.c: key_compare                                                     *)

Terms(k) == {key_get_term1(k), key_get_term2(k)}

PairMatchesMutant(k1, k2) ==
    key_get_term1(k1) = key_get_term1(k2) /\ key_get_term2(k1) = key_get_term2(k2)

\* both terms, in either order
PairMatches(k1, k2) ==
    \/ key_get_term1(k1) = key_get_term1(k2) /\ key_get_term2(k1) = key_get_term2(k2)
    \/ key_get_term1(k1) = key_get_term2(k2) /\ key_get_term2(k1) = key_get_term1(k2)

\* one of the strings is a term of k2 whose flag is set
FoundIn(strings, k2, flags) ==
    \/ key_get_term1(k2) \in strings /\ flags.term1Found
    \/ key_get_term2(k2) \in strings /\ flags.term2Found

SingleMatchesMutant(k1, k2, flags, mode) ==
    CASE k2.op = SINGLE_OP -> key_get_term1(k1) = key_get_term1(k2)
      [] k2.op # SINGLE_OP -> mode >= 1 /\ key_get_term1(k1) \in Terms(k2)

AndMatches(k1, k2) == k2.op = AND_OP /\ PairMatches(k1, k2)

OrMatches(k1, k2, flags, mode) ==
    CASE k2.op = OR_OP -> IF mode = 2 THEN FoundIn(Terms(k1), k2, flags) ELSE PairMatches(k1, k2)
      [] k2.op = AND_OP -> mode = 2 /\ Terms(k1) \cap Terms(k2) # {}
      [] k2.op = SINGLE_OP -> mode = 2 /\ key_get_term1(k2) \in Terms(k1)

SingleMatches(k1, k2, flags, mode) ==
    CASE k2.op = SINGLE_OP -> key_get_term1(k1) = key_get_term1(k2)
      [] k2.op = AND_OP -> mode = 2 /\ key_get_term1(k1) \in Terms(k2)
      [] k2.op = OR_OP -> mode >= 1 /\ FoundIn({key_get_term1(k1)}, k2, flags)

key_compare(k1, k2, flags, mode) ==
    IF NULL \in {k1, k2} THEN AnswerNull(k1, k2)
    ELSE IF Wild \in Terms(k1) \cup Terms(k2) THEN Fault
    ELSE Verdict(CASE k1.op = AND_OP -> AndMatches(k1, k2)
                   [] k1.op = OR_OP -> OrMatches(k1, k2, flags, mode)
                   [] k1.op = SINGLE_OP -> SingleMatches(k1, k2, flags, mode))

-----------------------------------------------------------------------------
(* A client, and a table that stores clones of its keys                    *)

Queries ==
    [op : {SINGLE_OP}, t1 : Term, t2 : {NULL}] \cup [op : {AND_OP, OR_OP}, t1 : Term, t2 : Term]

Made(q) ==
    IF q = NULL THEN NULL
    ELSE key_create(q.op, Str(q.t1, 0), IF q.t2 = NULL THEN NULL ELSE Str(q.t2, 0))

\* The flags are bytes of a table entry, not of a Result: the table hands its
\* comparator the entry (cache_hashtable.c, ht_get).  They may be anything.
Init ==
    /\ asked \in Queries \cup {NULL} /\ kept \in Queries \cup {NULL}
    /\ query = Made(asked) /\ stored = Made(kept)
    /\ found \in [term1Found : BOOLEAN, term2Found : BOOLEAN]
    /\ partialCacheMatches \in 0 .. 2
    /\ comparator \in {"cmp", "query"}
    /\ verdict = NULL

\* A wild term is copied up to the first zero byte, wherever that is: what the
\* clone then holds is not followed further.
Store ==
    /\ verdict = NULL /\ stored # NULL
    /\ key_get_term2(stored) # Wild
    /\ stored' = key_clone(stored)
    /\ UNCHANGED <<asked, kept, query, found, partialCacheMatches, comparator, verdict>>

Compare ==
    /\ verdict = NULL
    /\ verdict' = IF comparator = "cmp" THEN key_cmp(query, stored)
                  ELSE key_compare(query, stored, found, partialCacheMatches)
    /\ UNCHANGED <<asked, kept, query, stored, found, partialCacheMatches, comparator>>

Next == Store \/ Compare

Spec == Init /\ [][Next]_vars

-----------------------------------------------------------------------------
(* Properties                                                              *)

Small(t) == Length(t) + 1 <= 127
AllSmall(q) == Small(q.t1) /\ (q.t2 # NULL => Small(q.t2))

\* However often a key is cloned on its way into the tables, the accessors
\* read back the terms it was created for exactly when term 1 is shorter than
\* 127 characters, and key_size is the size of its block exactly when both are.
ReadsBack ==
    stored # NULL =>
        /\ key_size(stored) = Allocated(stored) <=> AllSmall(kept)
        /\ kept.t2 \notin {NULL, kept.t1} =>
             (key_get_term2(stored) = Str(kept.t2, 0) <=> Small(kept.t1))

Named == asked # NULL /\ kept # NULL

\* Two keys are equal for default_key_compare, which ht_insert too compares
\* by, exactly when the same bytes of them are hashed: a slot found by one
\* is found by the other.
HashAgrees ==
    (/\ comparator = "cmp" /\ verdict \in {0, 1} /\ Named
     /\ AllSmall(asked) /\ AllSmall(kept))
    => verdict = Verdict(Hashed(query) = Hashed(stored))

Holds(q, s) ==
    CASE q.op = SINGLE_OP -> q.t1 \in s
      [] q.op = AND_OP -> q.t1 \in s /\ q.t2 \in s
      [] q.op = OR_OP -> q.t1 \in s \/ q.t2 \in s

\* the documents of q1 are always documents of q2; s: the terms of a document
Implies(q1, q2) == \A s \in SUBSET Term : Holds(q1, s) => Holds(q2, s)
Equivalent(q1, q2) == Implies(q1, q2) /\ Implies(q2, q1)

Matched == comparator = "query" /\ verdict = 0 /\ Named

\* key_compare, whatever it takes for the term flags, matches a stored key only
\* if that answers the query: by the same documents for an AND query or without
\* partial matches, by a superset of them in mode 1.
MatchSound ==
    Matched /\ AllSmall(asked) /\ AllSmall(kept) =>
        /\ asked.op = AND_OP \/ partialCacheMatches = 0 => Equivalent(asked, kept)
        /\ partialCacheMatches = 1 => Implies(asked, kept)

SameQuery(q1, q2) == q1.op = q2.op /\ {q1.t1, q1.t2} = {q2.t1, q2.t2}

\* The key of the same query, its terms in either order, always matches: a
\* partial mode never hides an exact answer, unless it found neither term.
MatchComplete ==
    (/\ comparator = "query" /\ verdict \in {1, Fault} /\ Named
     /\ AllSmall(asked) /\ AllSmall(kept) /\ SameQuery(asked, kept))
    => /\ asked.op = OR_OP /\ partialCacheMatches = 2
       /\ ~found.term1Found /\ ~found.term2Found
=============================================================================
