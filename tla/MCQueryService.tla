---------------------------- MODULE MCQueryService ----------------------------
(* Instances of QueryService for TLC.                                        *)
EXTENDS QueryService

CONSTANTS i1, i2, q1, q2
=============================================================================
