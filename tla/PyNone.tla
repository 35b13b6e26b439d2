-------------------------------- MODULE PyNone --------------------------------
(* What the modules of the Python side share: None, the absent value, and   *)
(* the empty string, which as an id or a reference is false.                *)
EXTENDS Integers, Sequences, FiniteSets, SequencesExt, TLC

CONSTANT None

Nowhere == <<>>

(* A dictionary after d[k] = v.                                             *)
With(d, k, v) == [x \in (DOMAIN d) \cup {k} |-> IF x = k THEN v ELSE d[x]]

(* A dictionary with the items of a second one added, as {**d, **e}.       *)
Updated(d, e) == [x \in (DOMAIN d) \cup (DOMAIN e) |->
                     IF x \in DOMAIN e THEN e[x] ELSE d[x]]

(* The members of a list that are in a set, in the order of the list.       *)
Only(list, S) ==
    LET kept[i \in 0..Len(list)] ==
            IF i = 0 THEN <<>>
            ELSE IF list[i] \in S THEN Append(kept[i - 1], list[i])
            ELSE kept[i - 1]
    IN  kept[Len(list)]

(* A finite set as a sorted list, for a strict order given as pairs.        *)
Ranked(S, order) ==
    [i \in 1..Cardinality(S) |->
        CHOOSE x \in S :
           Cardinality({y \in S : <<y, x>> \in order}) = i - 1]
=============================================================================
