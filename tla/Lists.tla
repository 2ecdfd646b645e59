--------------------------------- MODULE Lists ---------------------------------
(***************************************************************************)
(* Vec::retain, Iterator::filter, a sum and Vec::sort_by on sequences.     *)
(*                                                                         *)
(* What is kept is given by its positions, and the results are built by    *)
(* recursive functions, so that ListLemmas can say what they are.  An      *)
(* order is a set of pairs: the first before the second.                   *)
(***************************************************************************)
EXTENDS Naturals, Sequences, FiniteSets

\* The elements of the list at the positions, in their order.
Pick(list, positions) ==
    LET upTo[n \in 0..Len(list)] ==
            IF n = 0 THEN << >>
            ELSE IF n \in positions THEN Append(upTo[n - 1], list[n]) ELSE upTo[n - 1]
    IN  upTo[Len(list)]

\* The sum of the numbers in the list.
Total(list) ==
    LET upTo[n \in 0..Len(list)] == IF n = 0 THEN 0 ELSE upTo[n - 1] + list[n]
    IN  upTo[Len(list)]

TotallyOrders(before, S) ==
    \A x, y, z \in S : /\ <<x, x>> \notin before
                       /\ x = y \/ <<x, y>> \in before \/ <<y, x>> \in before
                       /\ <<x, y>> \in before /\ <<y, z>> \in before => <<x, z>> \in before

\* The elements of a finite set in their order: each comes after as many as are
\* before it.
Before(S, before, x) == {y \in S : <<y, x>> \in before}
Sorted(S, before) ==
    [p \in 1..Cardinality(S) |-> CHOOSE x \in S : Cardinality(Before(S, before, x)) = p - 1]
===============================================================================
