--------------------------- MODULE MetricLifecycle ---------------------------
(***************************************************************************)
(* The life of a metric definition and of the verified queries that depend *)
(* on it (server/semantic/lifecycle.py, verified_queries.py, registry.py,  *)
(* server/api/semantic.py).  Every HTTP request runs in a database session *)
(* of its own at READ COMMITTED: it reads rows, decides on what it read,   *)
(* and writes "UPDATE ... WHERE id = ..." when it flushes or commits, so   *)
(* requests interleave between their reads and their commit.               *)
(*                                                                         *)
(* The first variables are the committed tables; pub and edit hold what    *)
(* the requests in flight have read and not yet committed.  A session that *)
(* ends without a commit (error, disconnect, crash) leaves the tables as   *)
(* they were.  Row locks are not a variable: they follow from the stage of *)
(* the publish requests in flight, the only ones that keep a lock across   *)
(* several statements.                                                     *)
(***************************************************************************)
EXTENDS Naturals

CONSTANTS
  Metric,        \* metric ids
  Query,         \* ids of verified queries
  Content,       \* what a definition can say (label, expression, filters, ...)
  Deps,          \* Deps[q]: dependent_metric_ids of query q
  Request,       \* slots for requests in flight
  Idle,          \* marks a free slot
  Targets,       \* the target statuses clients send to transition
  RequireFlags,  \* the values clients send for require_regression
  MaxVersion     \* bound on the version numbers

Status == {"DRAFT", "TESTING", "PUBLISHED", "DEPRECATED"}

ASSUME DepsAssumption == Deps \in [Query -> SUBSET Metric]
ASSUME TargetsAssumption == Targets \subseteq Status
ASSUME FlagsAssumption == RequireFlags \subseteq BOOLEAN
ASSUME MaxVersionAssumption == MaxVersion \in Nat

VARIABLES
  status,    \* metric_definition.status
  draft,     \* metric_definition: the editable content
  versions,  \* metric_version: the rows
  active,    \* metric_active_version.version_number, 0 when there is no row
  qstatus,   \* verified_query.status, "ABSENT" before the row is inserted
  reviewed,  \* history: the pointers as the last reviewer of a query saw them
  pub,       \* the publish request in each slot, or Idle
  edit       \* any other request in each slot, or Idle

tables == <<status, draft, versions, active, qstatus, reviewed>>
vars == <<status, draft, versions, active, qstatus, reviewed, pub, edit>>

Version == [metric : Metric, number : Nat \ {0}, content : Content, run : BOOLEAN]
QueryStatus == {"ABSENT", "DRAFT", "VERIFIED", "INVALID"}
Stage == {"read", "numbered", "inserted", "pointed", "flushed", "marked"}

PublishTx ==
  [at : Stage, metric : Metric, content : Content, run : BOOLEAN,
   number : Nat, hasActive : BOOLEAN, marked : SUBSET Query]

EditTx ==
  [op : {"transition"}, metric : Metric, to : Status]
    \cup [op : {"rollback"}, metric : Metric, to : Nat \ {0}]
    \cup [op : {"deprecate"}, metric : Metric]
    \cup [op : {"seed"}, metric : Metric, content : Content]
    \cup [op : {"verify"}, query : Query, seen : [Metric -> Nat]]
    \cup [op : {"invalidate", "re_validate"}, query : Query, writes : BOOLEAN]

NumbersOf(rows, m) == {row.number : row \in {w \in rows : w.metric = m}}

-----------------------------------------------------------------------------
(* What a request holds: stages of a publish after which its version row,  *)
(* and then the metric and pointer rows, are locked until it ends.          *)

HoldsVersion(r) == pub[r] # Idle /\ pub[r].at \in {"inserted", "pointed", "flushed", "marked"}
HoldsRows(r)    == pub[r] # Idle /\ pub[r].at \in {"flushed", "marked"}
RowsLocked(m)   == \E r \in Request : HoldsRows(r) /\ pub[r].metric = m

Free(r) == pub[r] = Idle /\ edit[r] = Idle

Start(r, tx) ==
  /\ Free(r)
  /\ edit' = [edit EXCEPT ![r] = tx]
  /\ UNCHANGED <<tables, pub>>

Finish(r) == edit' = [edit EXCEPT ![r] = Idle] /\ UNCHANGED pub

IsLatest(m, n) ==
  \/ n = 0 /\ NumbersOf(versions, m) = {}
  \/ n \in NumbersOf(versions, m) /\ \A k \in NumbersOf(versions, m) : k <= n

-----------------------------------------------------------------------------
Init ==
  /\ status = [m \in Metric |-> "DRAFT"]
  /\ draft \in [Metric -> Content]
  /\ versions = {}
  /\ active = [m \in Metric |-> 0]
  /\ qstatus = [q \in Query |-> "ABSENT"]
  /\ reviewed = [q \in Query |-> [m \in Metric |-> 0]]
  /\ pub = [r \in Request |-> Idle]
  /\ edit = [r \in Request |-> Idle]

-----------------------------------------------------------------------------
(* transition: DRAFT -> TESTING, TESTING -> DRAFT or PUBLISHED, rejected    *)
(* once the metric is PUBLISHED.  The status is written by primary key.     *)

Allowed(s) ==
  CASE s = "DRAFT"      -> {"TESTING"}
    [] s = "TESTING"    -> {"DRAFT", "PUBLISHED"}
    [] s = "PUBLISHED"  -> {"DEPRECATED"}
    [] s = "DEPRECATED" -> {}

BeginTransition(r, m, to) ==
  /\ status[m] # "PUBLISHED"
  /\ to \in Allowed(status[m])
  /\ Start(r, [op |-> "transition", metric |-> m, to |-> to])

CommitTransition(r) ==
  /\ edit[r] # Idle /\ edit[r].op = "transition"
  /\ ~RowsLocked(edit[r].metric)
  /\ status' = [status EXCEPT ![edit[r].metric] = edit[r].to]
  /\ Finish(r)
  /\ UNCHANGED <<draft, versions, active, qstatus, reviewed>>

-----------------------------------------------------------------------------
(* publish, statement by statement.  The snapshot is built from the row    *)
(* read first.                                                             *)

OpenPublish(r, m, run) ==
  /\ Free(r)
  /\ pub' = [pub EXCEPT ![r] =
       [at |-> "read", metric |-> m, content |-> draft[m], run |-> run,
        number |-> 0, hasActive |-> FALSE, marked |-> {}]]
  /\ UNCHANGED <<tables, edit>>

BeginPublish(r, m, require, run) ==
  /\ status[m] = "TESTING"
  /\ require => run
  /\ OpenPublish(r, m, run)

\* mutant: the highest number itself, not the next one
NumberVersionNotAdded(r) ==
  /\ pub[r] # Idle /\ pub[r].at = "read"
  /\ \E n \in 0..(MaxVersion - 1) :
       /\ IsLatest(pub[r].metric, n)
       /\ pub' = [pub EXCEPT ![r] = [pub[r] EXCEPT !.at = "numbered", !.number = n]]
  /\ UNCHANGED <<tables, edit>>

\* SELECT the highest version number, and add one
NumberVersion(r) ==
  /\ pub[r] # Idle /\ pub[r].at = "read"
  /\ \E n \in 0..(MaxVersion - 1) :
       /\ IsLatest(pub[r].metric, n)
       /\ pub' = [pub EXCEPT ![r] = [pub[r] EXCEPT !.at = "numbered", !.number = n + 1]]
  /\ UNCHANGED <<tables, edit>>

\* mutant: no unique key on (metric_id, version_number)
InsertVersionUnchecked(r) ==
  /\ pub[r] # Idle /\ pub[r].at = "numbered"
  /\ pub' = [pub EXCEPT ![r] = [pub[r] EXCEPT !.at = "inserted"]]
  /\ UNCHANGED <<tables, edit>>

\* another session has inserted the same key and has not ended
KeyLocked(r) ==
  \E s \in Request : /\ HoldsVersion(s)
                     /\ pub[s].metric = pub[r].metric
                     /\ pub[s].number = pub[r].number

\* mutant: a committed row with the same key is waited for as well
InsertVersionRetry(r) ==
  /\ pub[r] # Idle /\ pub[r].at = "numbered"
  /\ ~KeyLocked(r)
  /\ pub[r].number \notin NumbersOf(versions, pub[r].metric)
  /\ pub' = [pub EXCEPT ![r] = [pub[r] EXCEPT !.at = "inserted"]]
  /\ UNCHANGED <<tables, edit>>

\* INSERT the version row (autoflush).  A row with the same key that another
\* session has inserted and not committed makes this one wait; a committed one
\* violates uq_metric_version and ends the request.
InsertVersion(r) ==
  /\ pub[r] # Idle /\ pub[r].at = "numbered"
  /\ ~KeyLocked(r)
  /\ pub' = [pub EXCEPT ![r] =
       IF pub[r].number \in NumbersOf(versions, pub[r].metric)
       THEN Idle ELSE [pub[r] EXCEPT !.at = "inserted"]]
  /\ UNCHANGED <<tables, edit>>

\* SELECT the pointer row
ReadPointer(r) ==
  /\ pub[r] # Idle /\ pub[r].at = "inserted"
  /\ pub' = [pub EXCEPT ![r] =
       [pub[r] EXCEPT !.at = "pointed", !.hasActive = active[pub[r].metric] # 0]]
  /\ UNCHANGED <<tables, edit>>

\* the INSERT of a pointer row that is already there
PointerConflict(r) ==
  /\ pub[r] # Idle /\ pub[r].at = "pointed"
  /\ ~pub[r].hasActive
  /\ active[pub[r].metric] # 0

\* UPDATE or INSERT the pointer and UPDATE the status; both rows stay locked
FlushPublish(r) ==
  /\ pub[r] # Idle /\ pub[r].at = "pointed"
  /\ ~RowsLocked(pub[r].metric)
  /\ pub' = [pub EXCEPT ![r] = IF PointerConflict(r)
                               THEN Idle ELSE [pub[r] EXCEPT !.at = "flushed"]]
  /\ UNCHANGED <<tables, edit>>

\* mutant: the dependent queries are left alone
MarkNothing(r) ==
  /\ pub[r] # Idle /\ pub[r].at = "flushed"
  /\ pub' = [pub EXCEPT ![r] = [pub[r] EXCEPT !.at = "marked"]]
  /\ UNCHANGED <<tables, edit>>

\* invalidate_dependent_queries: SELECT the VERIFIED queries that depend on it
MarkDependents(r) ==
  /\ pub[r] # Idle /\ pub[r].at = "flushed"
  /\ pub' = [pub EXCEPT ![r] =
       [pub[r] EXCEPT !.at = "marked",
          !.marked = {q \in Query : qstatus[q] = "VERIFIED" /\ pub[r].metric \in Deps[q]}]]
  /\ UNCHANGED <<tables, edit>>

CommitTables(r) ==
  LET tx == pub[r] IN
    /\ versions' = versions \cup
         {[metric |-> tx.metric, number |-> tx.number,
           content |-> tx.content, run |-> tx.run]}
    /\ status' = [status EXCEPT ![tx.metric] = "PUBLISHED"]
    /\ qstatus' = [q \in Query |-> IF q \in tx.marked THEN "INVALID" ELSE qstatus[q]]
    /\ pub' = [pub EXCEPT ![r] = Idle]
    /\ UNCHANGED <<draft, reviewed, edit>>

\* mutant: a pointer row that is already there is not updated
CommitPublishInsertOnly(r) ==
  /\ pub[r] # Idle /\ pub[r].at = "marked"
  /\ CommitTables(r)
  /\ active' = IF pub[r].hasActive THEN active
               ELSE [active EXCEPT ![pub[r].metric] = pub[r].number]

\* UPDATE the queries read, and COMMIT everything
CommitPublish(r) ==
  /\ pub[r] # Idle /\ pub[r].at = "marked"
  /\ CommitTables(r)
  /\ active' = [active EXCEPT ![pub[r].metric] = pub[r].number]

-----------------------------------------------------------------------------
(* rollback moves the pointer to an existing version and nothing else.      *)

\* mutant: the target version is not looked up
BeginRollbackUnchecked(r, m, n) ==
  /\ active[m] # 0
  /\ Start(r, [op |-> "rollback", metric |-> m, to |-> n])

BeginRollback(r, m, n) ==
  /\ n \in NumbersOf(versions, m)
  /\ active[m] # 0
  /\ Start(r, [op |-> "rollback", metric |-> m, to |-> n])

CommitRollback(r) ==
  /\ edit[r] # Idle /\ edit[r].op = "rollback"
  /\ ~RowsLocked(edit[r].metric)
  /\ active' = [active EXCEPT ![edit[r].metric] = edit[r].to]
  /\ Finish(r)
  /\ UNCHANGED <<status, draft, versions, qstatus, reviewed>>

(* deprecate: PUBLISHED -> DEPRECATED.                                      *)

BeginDeprecate(r, m) ==
  /\ status[m] = "PUBLISHED"
  /\ Start(r, [op |-> "deprecate", metric |-> m])

CommitDeprecate(r) ==
  /\ edit[r] # Idle /\ edit[r].op = "deprecate"
  /\ ~RowsLocked(edit[r].metric)
  /\ status' = [status EXCEPT ![edit[r].metric] = "DEPRECATED"]
  /\ Finish(r)
  /\ UNCHANGED <<draft, versions, active, qstatus, reviewed>>

(* seed_from_yaml: new content for a row read as DRAFT or TESTING; content  *)
(* equal to what was read writes nothing.                                   *)

\* mutant: published rows are updated too
BeginSeedAnyStatus(r, m, c) ==
  /\ c # draft[m]
  /\ Start(r, [op |-> "seed", metric |-> m, content |-> c])

BeginSeed(r, m, c) ==
  /\ status[m] \in {"DRAFT", "TESTING"}
  /\ c # draft[m]
  /\ Start(r, [op |-> "seed", metric |-> m, content |-> c])

CommitSeed(r) ==
  /\ edit[r] # Idle /\ edit[r].op = "seed"
  /\ ~RowsLocked(edit[r].metric)
  /\ draft' = [draft EXCEPT ![edit[r].metric] = edit[r].content]
  /\ Finish(r)
  /\ UNCHANGED <<status, versions, active, qstatus, reviewed>>

-----------------------------------------------------------------------------
(* Verified queries.  add_draft inserts one row; with active_metric_versions *)
(* every metric the query depends on must have a version in force.          *)

AddDraft(q, checked) ==
  /\ qstatus[q] = "ABSENT"
  /\ checked => \A m \in Deps[q] : active[m] # 0
  /\ qstatus' = [qstatus EXCEPT ![q] = "DRAFT"]
  /\ UNCHANGED <<status, draft, versions, active, reviewed, pub, edit>>

BeginVerify(r, q) ==
  /\ qstatus[q] = "DRAFT"
  /\ Start(r, [op |-> "verify", query |-> q, seen |-> active])

CommitVerify(r) ==
  /\ edit[r] # Idle /\ edit[r].op = "verify"
  /\ qstatus' = [qstatus EXCEPT ![edit[r].query] = "VERIFIED"]
  /\ reviewed' = [reviewed EXCEPT ![edit[r].query] = edit[r].seen]
  /\ Finish(r)
  /\ UNCHANGED <<status, draft, versions, active>>

\* the session writes the status only when it differs from the one it read
BeginInvalidate(r, q) ==
  /\ qstatus[q] # "ABSENT"
  /\ Start(r,
       [op |-> "invalidate", query |-> q, writes |-> qstatus[q] # "INVALID"])

\* re_validate: a query that passes goes back to DRAFT, from any status; one
\* that fails (passes = FALSE) only has its last validation result recorded
BeginRevalidate(r, q, passes) ==
  /\ qstatus[q] # "ABSENT"
  /\ Start(r,
       [op |-> "re_validate", query |-> q,
        writes |-> passes /\ qstatus[q] # "DRAFT"])

CommitQueryStatus(r, op, s) ==
  /\ edit[r] # Idle /\ edit[r].op = op
  /\ qstatus' = IF edit[r].writes THEN [qstatus EXCEPT ![edit[r].query] = s]
                                  ELSE qstatus
  /\ Finish(r)
  /\ UNCHANGED <<status, draft, versions, active, reviewed>>

CommitInvalidate(r) == CommitQueryStatus(r, "invalidate", "INVALID")
CommitRevalidate(r) == CommitQueryStatus(r, "re_validate", "DRAFT")

-----------------------------------------------------------------------------
(* A request in flight ends without a commit: its session rolls back.       *)
Abort(r) ==
  /\ ~Free(r)
  /\ pub' = [pub EXCEPT ![r] = Idle]
  /\ edit' = [edit EXCEPT ![r] = Idle]
  /\ UNCHANGED tables

PublishStep(r) ==
  \/ NumberVersion(r) \/ InsertVersion(r) \/ ReadPointer(r)
  \/ FlushPublish(r) \/ MarkDependents(r) \/ CommitPublish(r)

EditStep(r) ==
  \/ CommitTransition(r) \/ CommitRollback(r) \/ CommitDeprecate(r) \/ CommitSeed(r)
  \/ CommitVerify(r) \/ CommitInvalidate(r) \/ CommitRevalidate(r)

Begin(r) ==
  \/ \E m \in Metric :
       \/ \E to \in Targets : BeginTransition(r, m, to)
       \/ \E require \in RequireFlags, run \in BOOLEAN : BeginPublish(r, m, require, run)
       \/ \E n \in 1..MaxVersion : BeginRollback(r, m, n)
       \/ BeginDeprecate(r, m)
       \/ \E c \in Content : BeginSeed(r, m, c)
  \/ \E q \in Query :
       \/ BeginVerify(r, q)
       \/ BeginInvalidate(r, q)
       \/ \E passes \in BOOLEAN : BeginRevalidate(r, q, passes)

Next ==
  \/ \E r \in Request : Begin(r) \/ PublishStep(r) \/ EditStep(r) \/ Abort(r)
  \/ \E q \in Query, checked \in BOOLEAN : AddDraft(q, checked)

Spec == Init /\ [][Next]_vars

(* Each request is a coroutine the server keeps running, and a lock it waits *)
(* for is held by a request that keeps running too.  A session waiting for a *)
(* unique key is woken whenever the holder of the key ends, so it is not     *)
(* passed over for ever by sessions that insert the key and abort (SF).      *)
Fairness ==
  \A r \in Request : /\ WF_vars(PublishStep(r)) /\ WF_vars(EditStep(r))
                     /\ SF_vars(InsertVersion(r))

FairSpec == Spec /\ Fairness
-----------------------------------------------------------------------------
(* load_active_metrics: the pointer rows joined with their version rows.    *)
LoadActiveMetrics == {v \in versions : v.number = active[v.metric]}

(* The variables have the types of the columns and of the values a request   *)
(* keeps between its statements.                                             *)
TypeOK ==
  /\ status \in [Metric -> Status]
  /\ draft \in [Metric -> Content]
  /\ versions \subseteq Version
  /\ active \in [Metric -> Nat]
  /\ qstatus \in [Query -> QueryStatus]
  /\ reviewed \in [Query -> [Metric -> Nat]]
  /\ pub \in [Request -> PublishTx \cup {Idle}]
  /\ edit \in [Request -> EditTx \cup {Idle}]

(* "version_number increases monotonically, guaranteed by the service layer" *)
(* (models.py): whatever publishes overlap or fail, the committed numbers of *)
(* a metric are 1..n with one row each - no gap is left by an aborted        *)
(* publish and no number is given twice.                                     *)
VersionNumbersContiguous ==
  \A v \in versions :
    /\ \A k \in 1..(v.number - 1) : k \in NumbersOf(versions, v.metric)
    /\ \A w \in versions : w.metric = v.metric /\ w.number = v.number => w = v

(* The pointer of a metric names a committed version, and a metric with      *)
(* versions has a pointer, so the join of load_active_metrics never drops a  *)
(* published metric.                                                         *)
ActivePointsAtVersion ==
  \A m \in Metric :
    IF NumbersOf(versions, m) = {} THEN active[m] = 0
                                   ELSE active[m] \in NumbersOf(versions, m)

(* publish takes no lock of its own, yet two publishes of one metric are     *)
(* never both past the INSERT of their version row: the unique key and the   *)
(* "max + 1" numbering act as a mutex per metric.                            *)
PublishExclusive ==
  \A r, s \in Request :
    HoldsVersion(r) /\ HoldsVersion(s) /\ pub[r].metric = pub[s].metric => r = s

(* The branch of publish that found no pointer row and INSERTs one can never *)
(* collide with a pointer row committed since it looked.                     *)
PointerInsertSafe == \A r \in Request : ~PointerConflict(r)

(* A publish puts the newest version in force, whatever publishes overlap:   *)
(* no version appears with a number below one that is already committed.     *)
PublishIsNewest ==
  [][\A m \in Metric : NumbersOf(versions', m) # NumbersOf(versions, m) =>
       \A k \in NumbersOf(versions', m) : k <= active'[m]]_vars

(* What a request in flight is going to change, and what a review rests on.  *)
Changes(r) ==
  IF pub[r] # Idle THEN {pub[r].metric}
  ELSE IF edit[r] # Idle /\ edit[r].op \in {"transition", "rollback", "deprecate", "seed"}
       THEN {edit[r].metric} ELSE {}

RestsOn(r) == IF edit[r] # Idle /\ edit[r].op = "verify" THEN Deps[edit[r].query] ELSE {}

(* No request in flight changes a metric that another one changes, or that   *)
(* the query another one verifies rests on.  Nothing in the code enforces it. *)
Apart ==
  \A r, s \in Request : r # s => Changes(r) \cap (Changes(s) \cup RestsOn(s)) = {}

(* A query offered to few-shot retrieval was reviewed against the versions   *)
(* that are in force ("does not inherit the trust of a new version",          *)
(* models.py:16).                                                            *)
TrustedQueriesFresh ==
  \A q \in Query : qstatus[q] = "VERIFIED" =>
    \A m \in Deps[q] : reviewed[q][m] = active[m]

(* The row an administrator sees of a PUBLISHED metric has the content of    *)
(* each of its versions ("the current draft is fixed as a MetricVersion      *)
(* whenever a metric enters PUBLISHED", models.py:209).                      *)
ShownIsReleased ==
  \A v \in versions : status[v.metric] = "PUBLISHED" => draft[v.metric] = v.content

(* As long as requests stay apart, publishing takes back the trust of every  *)
(* query that rests on the metric, and no other request changes what is in   *)
(* force behind the back of a trusted query.                                 *)
TrustKeptApart == []Apart => []TrustedQueriesFresh

(* As long as requests stay apart, the row of a published metric and its      *)
(* version never differ: publish snapshots the row as it is, seeding again    *)
(* passes over it, and nothing leads from PUBLISHED back to an edited draft.  *)
ReleaseShownApart == []Apart => []ShownIsReleased

(* A metric shown as PUBLISHED has a version in force that is bound to a     *)
(* regression run ("publishing must bind the id of a regression run", and    *)
(* is refused without, lifecycle.py:8).                                      *)
PublishedWasTested ==
  \A m \in Metric : status[m] = "PUBLISHED" =>
    \E v \in LoadActiveMetrics : v.metric = m /\ v.run

(* Publishes do not wait on each other for ever: one that has numbered its   *)
(* version commits, fails on the unique key, or is aborted.                  *)
PublishEnds ==
  \A r \in Request : (pub[r] # Idle /\ pub[r].at # "read") ~> pub[r] = Idle

(* Requests, sessions and locks hidden, the tables implement the register of *)
(* immutable versions.                                                       *)
Register == INSTANCE VersionRegister WITH published <- versions, current <- active
ImplementsRegister == Register!Spec
=============================================================================
