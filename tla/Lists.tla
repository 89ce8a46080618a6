--------------------------------- MODULE Lists ---------------------------------
(* Selecting from a list by index, which keeps its order.                   *)
EXTENDS Naturals, Sequences, FiniteSets

\* how many of the indices I are at most i
PlaceIn(I, i) == Cardinality({j \in I : j <= i})

\* the items of the list at the indices I
Selection(list, I) == [k \in 1..Cardinality(I) |-> list[CHOOSE i \in I : PlaceIn(I, i) = k]]
=============================================================================
