------------------------------ MODULE Sublists ------------------------------
(***************************************************************************)
(* Parts of a list, in the order of the list: what filter() returns, given *)
(* the positions it keeps.                                                 *)
(***************************************************************************)
EXTENDS Naturals, Sequences, FiniteSets

\* The place of position i among the positions in I.
Rank(I, i) == Cardinality({j \in I : j <= i})

\* The elements of s at the positions in I, a subset of its positions.
Sublist(s, I) == [k \in 1..Cardinality(I) |-> s[CHOOSE i \in I : Rank(I, i) = k]]
=============================================================================
