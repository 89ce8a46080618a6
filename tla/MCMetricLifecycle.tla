-------------------------- MODULE MCMetricLifecycle --------------------------
(* Instances of MetricLifecycle for TLC.                                    *)
EXTENDS MetricLifecycle, TLC

CONSTANTS m1, q1, r1, r2, c1, c2

\* the one query depends on the one metric
AllDeps == [q \in Query |-> Metric]
=============================================================================
