------------------------------ MODULE Sorting -------------------------------
(* std::stable_sort, by insertion: x goes behind everything it is not before.  *)
EXTENDS Integers, FiniteSets, FiniteSetsExt, SequencesExt

InsertBy(before(_, _), sorted, x) ==
    InsertAt(sorted, 1 + Cardinality({i \in DOMAIN sorted : ~before(x, sorted[i])}), x)

SortBy(before(_, _), s) == FoldLeft(LAMBDA sorted, x : InsertBy(before, sorted, x), <<>>, s)

\* The members of a set in an order; those the order leaves open, in any.
SortSet(before(_, _), S) == SortBy(before, SetToSeq(S))
=============================================================================
