---------------------------- MODULE EventWindow -----------------------------
(* Events are numbered in the order of their dates; a reader that takes a    *)
(* limited number of them takes the newest (loadCountyEvents).               *)
EXTENDS Integers, FiniteSets

Newest(S, limit) == {e \in S : Cardinality({f \in S : f > e}) < limit}
=============================================================================
