------------------------------ MODULE Positions ------------------------------
(***************************************************************************)
(* Orders of a set, and the items of a sequence at a set of positions: what *)
(* Python's sorted() and its list comprehensions with a condition are.     *)
(***************************************************************************)
EXTENDS Naturals, Sequences, FiniteSets

\* The members of S, in the order a set of pairs has them in.
InOrder(S, before) ==
    [k \in 1..Cardinality(S) |-> CHOOSE i \in S : Cardinality({j \in S : <<j, i>> \in before}) = k - 1]

Earlier(I) == {p \in I \X I : p[1] < p[2]}
\* Of tuples, what one loop within another visits first.
Lexicographic(T) ==
    {p \in T \X T : \E n \in DOMAIN p[1] : /\ p[1][n] < p[2][n]
                                          /\ \A m \in 1..n - 1 : p[1][m] = p[2][m]}
Picked(s, order) == [k \in DOMAIN order |-> s[order[k]]]

\* The items of s at the positions I.
Selection(s, I) == Picked(s, InOrder(I, Earlier(I)))

FirstOf(items, n) == SubSeq(items, 1, IF Len(items) < n THEN Len(items) ELSE n)
=============================================================================
