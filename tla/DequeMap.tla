------------------------------ MODULE DequeMap ------------------------------
(***************************************************************************)
(* What a DequeueHashTable promises (dq_hashtable.h): a map from keys to   *)
(* values whose keys are also in an order, with both ends reachable.       *)
(***************************************************************************)
EXTENDS Integers, Sequences, SequencesExt

CONSTANTS Keys, Values, NULL

VARIABLES
    list,     \* <<key, value>> pairs, front first, one per key
    answer    \* what the last operation returned and gave to the handler

vars == <<list, answer>>

Reply(result, value, destroyed) ==
    answer' = [result |-> result, value |-> value, destroyed |-> destroyed]

With(k) == {i \in DOMAIN list : list[i][1] = k}
Position(k) == CHOOSE i \in With(k) : TRUE
Without(k) == IF With(k) = {} THEN list ELSE RemoveAt(list, Position(k))
Old(k) == IF With(k) = {} THEN << >> ELSE <<list[Position(k)][2]>>
ValueOf(s) == IF s = << >> THEN NULL ELSE s[1]

Init == list = << >> /\ answer = [result |-> 0, value |-> NULL, destroyed |-> << >>]

\* a key already there moves to the end it is pushed to, and its old value is
\* destroyed
Push(k, v, last) ==
    /\ list' = IF last THEN Append(Without(k), <<k, v>>) ELSE <<<<k, v>>>> \o Without(k)
    /\ Reply(0, NULL, Old(k))

\* no memory
Refuse == Reply(-1, NULL, << >>) /\ UNCHANGED list

RemoveKey(k, taken) ==
    /\ list' = Without(k)
    /\ IF With(k) = {} THEN Reply(1, NULL, << >>)
       ELSE IF taken THEN Reply(0, ValueOf(Old(k)), << >>) ELSE Reply(0, NULL, Old(k))

Pop(last) ==
    IF list = << >> THEN Reply(0, NULL, << >>) /\ UNCHANGED list
    ELSE IF last THEN list' = Front(list) /\ Reply(0, Last(list)[2], << >>)
    ELSE list' = Tail(list) /\ Reply(0, Head(list)[2], << >>)

Get(k) == Reply(0, ValueOf(Old(k)), << >>) /\ UNCHANGED list

GetEnd(last) ==
    /\ Reply(0, IF list = << >> THEN NULL
                ELSE IF last THEN Last(list)[2] ELSE Head(list)[2], << >>)
    /\ UNCHANGED list

Destroy(handled) ==
    /\ list' = << >>
    /\ Reply(0, NULL, IF handled THEN [i \in DOMAIN list |-> list[i][2]] ELSE << >>)

Next ==
    \/ \E k \in Keys, v \in Values, last \in BOOLEAN : Push(k, v, last)
    \/ Refuse
    \/ \E k \in Keys, taken \in BOOLEAN : RemoveKey(k, taken)
    \/ \E last \in BOOLEAN : Pop(last) \/ GetEnd(last)
    \/ \E k \in Keys : Get(k)
    \/ \E handled \in BOOLEAN : Destroy(handled)

Spec == Init /\ [][Next]_vars
=============================================================================
