-------------------------- MODULE MCBusinessDatabase --------------------------
(* Instances of BusinessDatabase for TLC.                                    *)
EXTENDS BusinessDatabase

CONSTANTS m1, m2, s1, s2

\* PROFILES: tiny as it is; dev with fewer orders, and batches to match
TinyProfile == [seed |-> 20260908, orders |-> 24, items |-> 3, batch |-> 24]
DevProfile == [seed |-> 20260908, orders |-> 70, items |-> 5, batch |-> 35]
BothProfiles == {TinyProfile, DevProfile}
=============================================================================
