----------------------------- MODULE MCIndexBuild -----------------------------
(* Instances of IndexBuild for TLC: one table with one column, and one table *)
(* without.                                                                  *)
EXTENDS IndexBuild

CONSTANTS t1, t2, c1, k1, k2, w1, w2

MCOwner == [d \in {c1} |-> t1]
MCScopes == {Table}
=============================================================================
