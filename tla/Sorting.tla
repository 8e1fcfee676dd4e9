------------------------------ MODULE Sorting ------------------------------
(***************************************************************************)
(* sorted(), ORDER BY and their like: the members of a finite set in a     *)
(* strict total order that is given as the set of its pairs.               *)
(***************************************************************************)
EXTENDS Integers, FiniteSets

\* The member at a place is the one with so many members before it.
InOrder(S, before) ==
    [n \in 1 .. Cardinality(S) |-> CHOOSE a \in S : Cardinality({b \in S : <<b, a>> \in before}) = n - 1]

\* A stable sort: before holds the pairs of places whose items are in order by
\* their keys, and items of one key keep their order.
StablySorted(s, before) ==
    LET places == DOMAIN s
        first == {p \in places \X places : p \in before \/ (<<p[2], p[1]>> \notin before /\ p[1] < p[2])}
        order == InOrder(places, first)
    IN  [n \in DOMAIN order |-> s[order[n]]]
=============================================================================
