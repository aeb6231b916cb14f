--------------------------------- MODULE Lists ---------------------------------
(***************************************************************************)
(* What the code does with lists again and again: sorted() with a key, the *)
(* comprehension that leaves some elements out, and sum().                 *)
(***************************************************************************)
EXTENDS Integers, Sequences, FiniteSets, SequencesExt

\* The loop over 1 to n.
Turns(n) == [k \in 1 .. n |-> k]

\* Keys are compared like Python's tuples of two.
Precedes(p, q) == p[1] < q[1] \/ (p[1] = q[1] /\ p[2] < q[2])

Least(key, rest) == CHOOSE x \in rest : \A y \in rest \ {x} : Precedes(key[x], key[y])

\* The elements of a finite set in the order of their keys, no two of which are equal.
Arranged(key) ==
    FoldLeft(LAMBDA sorted, k : Append(sorted, Least(key, DOMAIN key \ Range(sorted))),
             <<>>, Turns(Cardinality(DOMAIN key)))

\* Those of the numbers 1 to n that are in a set, in order.
Ascending(n, set) == FoldLeft(LAMBDA kept, i : IF i \in set THEN Append(kept, i) ELSE kept, <<>>, Turns(n))

\* What a list has at some places, in a given order of theirs.
At(list, order) == [k \in DOMAIN order |-> list[order[k]]]

\* A comprehension with a condition, which holds at some places.
Kept(list, places) == At(list, Ascending(Len(list), places))

\* sorted() is stable: elements of one key stay in the order of the list.
SortedBy(list, key) == At(list, Arranged([i \in DOMAIN list |-> <<key[i], i>>]))

Sum(list) == FoldLeft(LAMBDA n, m : n + m, 0, list)
================================================================================
