--------------------------- MODULE VersionRegister ---------------------------
(***************************************************************************)
(* What the semantic layer promises about the versions of its metrics,     *)
(* without requests, transactions or locks (server/semantic/models.py,     *)
(* "MetricVersion" and "MetricActiveVersion"): the versions of a metric    *)
(* are numbered 1, 2, 3, ... in the order they are published, a published  *)
(* version is never changed or removed, and a pointer names the version in *)
(* force.  Publishing adds the next version and moves the pointer to it in *)
(* one step; the pointer may also be moved to any version that exists.     *)
(***************************************************************************)
EXTENDS Naturals

CONSTANTS Metric,     \* the metric ids
          Content,    \* the possible definitions of a metric
          MaxVersion  \* bound on the version numbers

VARIABLES published,  \* the published versions, a set of Version
          current     \* current[m]: the number in force, 0 before the first

vars == <<published, current>>

NumbersOf(rows, m) == {row.number : row \in {w \in rows : w.metric = m}}

Init ==
  /\ published = {}
  /\ current = [m \in Metric |-> 0]

Publish(m) ==
  \E n \in 1..MaxVersion, c \in Content, run \in BOOLEAN :
    /\ n \notin NumbersOf(published, m)
    /\ \A k \in 1..(n - 1) : k \in NumbersOf(published, m)
    /\ published' = published \cup
         {[metric |-> m, number |-> n, content |-> c, run |-> run]}
    /\ current' = [current EXCEPT ![m] = n]

MovePointer(m) ==
  /\ current[m] # 0
  /\ \E n \in NumbersOf(published, m) : current' = [current EXCEPT ![m] = n]
  /\ UNCHANGED published

Next == \E m \in Metric : Publish(m) \/ MovePointer(m)

Spec == Init /\ [][Next]_vars
=============================================================================
