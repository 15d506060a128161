------------------------------- MODULE Rankings -------------------------------
(***************************************************************************)
(* Python's sorted and Cypher's ORDER BY: the elements of a finite set,    *)
(* those with the smaller keys first.  A key is a tuple of numbers.        *)
(***************************************************************************)
EXTENDS Integers, Sequences, FiniteSets

\* The order of tuples of one length, by the first place where they differ.
Less(a, b) ==
  \E k \in DOMAIN a : a[k] < b[k] /\ \A j \in DOMAIN a : j < k => a[j] = b[j]

\* Different elements have different keys.
InOrder(S, key) ==
  LET arranged[T \in SUBSET S] ==
        IF T = {} THEN <<>>
        ELSE LET pivot == CHOOSE x \in T : TRUE
                 lower == {x \in T : Less(key[x], key[pivot])}
             IN arranged[lower] \o <<pivot>> \o arranged[T \ (lower \union {pivot})]
  IN arranged[S]

\* Numbers, the smallest first.
Ascending(S) == InOrder(S, [x \in S |-> <<x>>])

\* The elements of a sequence at some of its places.
AtPlaces(s, places) ==
  LET place == Ascending(places)
  IN [k \in DOMAIN place |-> s[place[k]]]

=============================================================================
