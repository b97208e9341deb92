-------------------------------- MODULE Ranking --------------------------------
(***************************************************************************)
(* How the retrieval repositories sort, filter and cut what they found:    *)
(* sorted(S, key=...), [x for x in s if ...] and s[:n].                    *)
(***************************************************************************)
EXTENDS Integers, FiniteSets, Sequences

\* Keys are compared as Python compares tuples.
Before(a, b) ==
    \E i \in DOMAIN a : a[i] < b[i] /\ \A j \in 1 .. (i - 1) : a[j] = b[j]

\* The domain of key, sorted by it; no two members have one key.
InOrder(key) ==
    [i \in 1 .. Cardinality(DOMAIN key) |->
        CHOOSE x \in DOMAIN key :
            Cardinality({y \in DOMAIN key : Before(key[y], key[x])}) = i - 1]

Ascending(places) == InOrder([i \in places |-> <<i>>])

\* What stands at some places of s, in the order of s
At(s, places) == LET order == Ascending(places) IN [k \in DOMAIN order |-> s[order[k]]]

First(s, n) == SubSeq(s, 1, IF Len(s) < n THEN Len(s) ELSE n)

===============================================================================
