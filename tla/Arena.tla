-------------------------------- MODULE Arena --------------------------------
(***************************************************************************)
(* What an allocator promises: a client that asks for bytes gets, or does  *)
(* not get, a region that no other client holds, and keeps it until it     *)
(* gives it back. In front of every region lie Overhead bytes that are the *)
(* allocator's own.                                                        *)
(***************************************************************************)
EXTENDS Integers

CONSTANTS Overhead, Low, High    \* the arena is Low .. High - 1

VARIABLE regions    \* the regions held: their size, by their first byte

Bytes(p, n) == (p - Overhead) .. (p + n - 1)

Vacant(held, p, n) ==
    /\ Bytes(p, n) \subseteq Low .. High - 1
    /\ \A q \in DOMAIN held : Bytes(p, n) \cap Bytes(q, held[q]) = {}

Init == regions = [p \in {} |-> 0]

Drop(p) == [q \in DOMAIN regions \ {p} |-> regions[q]]
Hold(p, n) == [q \in DOMAIN regions \cup {p} |-> IF q = p THEN n ELSE regions[q]]

Grant == \E p \in DOMAIN regions' \ DOMAIN regions :
    Vacant(regions, p, regions'[p]) /\ regions' = Hold(p, regions'[p])

Return == \E p \in DOMAIN regions : regions' = Drop(p)

\* a larger region instead of one that is held: both are held while it is copied
Move == \E p \in DOMAIN regions, q \in DOMAIN regions' \ DOMAIN regions :
    /\ Vacant(regions, q, regions'[q])
    /\ regions'[q] > regions[p]
    /\ regions' = [a \in (DOMAIN regions \ {p}) \cup {q} |-> IF a = q THEN regions'[q] ELSE regions[a]]

\* the same region made smaller or larger, over bytes that nobody holds
Resize == \E p \in DOMAIN regions :
    /\ DOMAIN regions' = DOMAIN regions
    /\ Vacant(Drop(p), p, regions'[p])
    /\ regions' = Hold(p, regions'[p])

Reset == regions' = [p \in {} |-> 0]

Next == Grant \/ Return \/ Move \/ Resize \/ Reset

Spec == Init /\ [][Next]_regions
=============================================================================
