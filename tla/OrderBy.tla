------------------------------- MODULE OrderBy -------------------------------
(***************************************************************************)
(* The rows of a query in the order of its ORDER BY clause.                *)
(***************************************************************************)
EXTENDS Integers, FiniteSets

\* before is the order of the clause: the pairs <<x, y>> of rows x that come
\* before rows y.  Rows that tie come in whatever order.
InOrder(r, before) ==
    \A i, j \in DOMAIN r : i < j => r[i] # r[j] /\ <<r[j], r[i]>> \notin before

\* Every row of S once
OrderBy(S, before) == CHOOSE r \in [1 .. Cardinality(S) -> S] : InOrder(r, before)

\* What a clause gives: an order in which rows may tie.
Orders(before, S) ==
    /\ \A x, y \in S : <<x, y>> \in before => <<y, x>> \notin before
    /\ \A x, y, z \in S : <<x, z>> \in before => <<x, y>> \in before \/ <<y, z>> \in before

NoTies(before, S) == \A x, y \in S : x # y => <<x, y>> \in before \/ <<y, x>> \in before
=============================================================================
