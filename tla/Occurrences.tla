----------------------------- MODULE Occurrences ------------------------------
(* Counting the elements of a sequence, from a position on. *)
EXTENDS Naturals, Sequences, FiniteSets

\* How many elements of s, at position k or later, are in the set E.
OccurFrom(s, k, E) == Cardinality({i \in k..Len(s) : s[i] \in E})
Occur(s, E) == OccurFrom(s, 1, E)
===============================================================================
