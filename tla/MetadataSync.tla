----------------------------- MODULE MetadataSync -----------------------------
(***************************************************************************)
(* Metadata synchronisation: the API request that triggers a job           *)
(* (server/datasource/router.py), the Celery task that runs it             *)
(* (server/tasks/metadata_sync.py, celery_app.py), and the upsert of what  *)
(* was collected into the catalog (server/datasource/sync.py), while the   *)
(* source schema changes.  The manual_* columns of the catalog are left    *)
(* out: a sync assigns none of them (sync.py), the requests that do        *)
(* (server/metadata/router.py) assign nothing else, and a session writes   *)
(* only what it has assigned.                                              *)
(*                                                                         *)
(* A run of a job holds one database transaction from its first flush to   *)
(* its commit, and locks the table rows it has written until then.  The    *)
(* column rows of a table are written under the lock of the table's row,   *)
(* so a table stands for its columns too.  A task message is acknowledged  *)
(* when the task ends (acks_late): a worker that dies gives it back, and   *)
(* a task that outlasts the visibility timeout has it delivered again.     *)
(***************************************************************************)
EXTENDS Naturals, FiniteSets

CONSTANTS
  Job,         \* ids of metadata_sync_job
  Slot,        \* worker processes, and requests that run a sync inline
  NumTables,   \* table names are 1..NumTables in their ORDER BY order
  Idle,        \* marks a free slot
  MaxRetries,  \* MAX_RETRIES
  MaxFaults,   \* bound on crashes and redeliveries
  MaxChanges   \* bound on the schema changes of the source

Table == 1..NumTables

ASSUME SlotAssumption == IsFiniteSet(Slot)
ASSUME CountsAssumption ==
  NumTables \in Nat /\ MaxRetries \in Nat \ {0} /\ MaxFaults \in Nat /\ MaxChanges \in Nat

VARIABLES
  source,   \* the tables of the source schema
  row,      \* table_metadata: "none", "live" or "deleted" (is_deleted)
  status,   \* metadata_sync_job.status as committed, "absent" before
  retries,  \* metadata_sync_job.retry_count
  error,    \* metadata_sync_job.error_summary, by its cause; never cleared
  request,  \* the trigger request of each job
  queue,    \* messages in the broker, per job
  run,      \* the run in each slot, or Idle
  lapsed,   \* history: the source has lacked the first table
  applied,  \* history: the tables collected by the last sync that committed
  abandoned,\* history: jobs whose last failure was followed by a run that ended with
            \* neither success nor retry (control database, credential)
  faults,   \* crashes and redeliveries so far
  changes   \* schema changes so far

catalog == <<row, applied, abandoned>>
jobs == <<status, retries, error>>
world == <<source, lapsed, faults, changes>>
vars == <<row, applied, abandoned, status, retries, error, source, lapsed, faults, changes,
          request, queue, run>>

RowStatus == {"none", "live", "deleted"}
JobStatus == {"absent", "PENDING", "FAILED", "SUCCEEDED"}
JobError == {"none", "credential", "source"}
RequestStage == {"none", "flushed", "dispatched", "ended"}
Running == {"running", "lookup", "write", "flush", "failing"}
Stage == {"loaded", "failed", "finished"} \cup Running

\* wrote[t]: what the transaction has written to the row of t; "touch" leaves
\* is_deleted alone, because the session only writes attributes it has changed
Run ==
  [job : Job, inline : BOOLEAN, at : Stage, status : (JobStatus \ {"absent"}) \cup {"RUNNING"}, error : JobError, count : Nat,
   snapshot : SUBSET Table, todo : SUBSET Table, read : RowStatus,
   wrote : [Table -> {"no", "touch", "live", "deleted"}]]

ASSUME IdleAssumption == Idle \notin Run

\* the job row as the session has it: committed, or inserted by itself (inline)
NewRun(j, inline) ==
  [job |-> j, inline |-> inline, at |-> "loaded",
   status |-> IF inline THEN "PENDING" ELSE status[j], error |-> error[j], count |-> retries[j],
   snapshot |-> {}, todo |-> {}, read |-> "none", wrote |-> [t \in Table |-> "no"]]

Live == {t \in Table : row[t] = "live"}
IsFirst(t, S) == t \in S /\ \A u \in S : t <= u

At(r, stage) == run[r] # Idle /\ run[r].at = stage

\* the row a run is about to write: names in order, then the vanished tables
Target(r, t) ==
  \/ At(r, "write") /\ IsFirst(t, run[r].todo)
  \/ At(r, "flush") /\ t \in run[r].todo

Holds(r, t) == run[r] # Idle /\ run[r].wrote[t] # "no"
Locked(r, t) == \E s \in Slot \ {r} : Holds(s, t)

\* a step of one run that commits nothing
RunStep(r, rec) ==
  /\ run' = [run EXCEPT ![r] = rec]
  /\ UNCHANGED <<catalog, jobs, world, request, queue>>

-----------------------------------------------------------------------------
\* the source has at least its first table; the catalog is empty, or as an
\* earlier sync left it
Init ==
  /\ source \in {S \in SUBSET Table : 1 \in S}
  /\ lapsed = FALSE
  /\ row \in {[t \in Table |-> "none"],
             [t \in Table |-> IF t \in source THEN "live" ELSE "deleted"]}
  /\ applied = Live
  /\ status = [j \in Job |-> "absent"]
  /\ retries = [j \in Job |-> 0]
  /\ error = [j \in Job |-> "none"]
  /\ request = [j \in Job |-> "none"]
  /\ queue = [j \in Job |-> 0]
  /\ run = [r \in Slot |-> Idle]
  /\ abandoned = {}
  /\ faults = 0
  /\ changes = 0

-----------------------------------------------------------------------------
(* trigger_sync: INSERT the job and flush, dispatch the task, then commit.  *)
(* A job whose dispatch fails is run in the request's own session.          *)

FlushJob(j) ==
  /\ request[j] = "none"
  /\ request' = [request EXCEPT ![j] = "flushed"]
  /\ UNCHANGED <<catalog, jobs, world, queue, run>>

Dispatch(j) ==
  /\ request[j] = "flushed"
  /\ request' = [request EXCEPT ![j] = "dispatched"]
  /\ queue' = [queue EXCEPT ![j] = @ + 1]
  /\ UNCHANGED <<catalog, jobs, world, run>>

CommitJob(j) ==
  /\ request[j] = "dispatched"
  /\ request' = [request EXCEPT ![j] = "ended"]
  /\ status' = [status EXCEPT ![j] = "PENDING"]
  /\ UNCHANGED <<catalog, retries, error, world, queue, run>>

RunInline(r, j) ==
  /\ request[j] = "flushed"
  /\ run[r] = Idle
  /\ request' = [request EXCEPT ![j] = "ended"]
  /\ run' = [run EXCEPT ![r] = NewRun(j, TRUE)]
  /\ UNCHANGED <<catalog, jobs, world, queue>>

-----------------------------------------------------------------------------
(* The task.  A job that is not in the table (yet) is given up: not_found.  *)

LoadJob(r, j) ==
  /\ run[r] = Idle
  /\ queue[j] > 0
  /\ queue' = [queue EXCEPT ![j] = @ - 1]
  /\ run' = IF status[j] = "absent" THEN run
            ELSE [run EXCEPT ![r] = NewRun(j, FALSE)]
  /\ UNCHANGED <<catalog, jobs, world, request>>

\* another run of the same job has flushed RUNNING and has not ended
JobLocked(r) ==
  \E s \in Slot \ {r} : run[s] # Idle /\ run[s].job = run[r].job /\ run[s].at \in Running

\* an inline run ends with its request; a task has its message to acknowledge,
\* and of what its session has read it needs the count for a retry only
Ended(r, stage) == IF run[r].inline THEN Idle
                   ELSE [run[r] EXCEPT !.at = stage, !.status = "PENDING", !.error = "none",
                                       !.count = IF stage = "finished" THEN 0 ELSE @,
                                       !.snapshot = {}, !.read = "none",
                                       !.wrote = [t \in Table |-> "no"]]

\* the session writes an attribute only when it differs from what it has read
WriteError(r, e) ==
  error' = IF run[r].error = e THEN error ELSE [error EXCEPT ![run[r].job] = e]

\* the credential cannot be resolved: FAILED, and no retry
CredentialError(r) ==
  /\ At(r, "loaded")
  /\ ~JobLocked(r)
  /\ status' = IF run[r].status = "FAILED" THEN status
               ELSE [status EXCEPT ![run[r].job] = "FAILED"]
  /\ WriteError(r, "credential")
  /\ run' = [run EXCEPT ![r] = Ended(r, "finished")]
  /\ abandoned' = abandoned \cup {run[r].job}
  /\ UNCHANGED <<row, applied, retries, world, request, queue>>

\* RUNNING is flushed, and never committed
StartSync(r) ==
  /\ At(r, "loaded")
  /\ ~JobLocked(r)
  /\ RunStep(r, [run[r] EXCEPT !.at = "running", !.status = "RUNNING"])

\* the source cannot be reached or queried: SyncError
SourceError(r) ==
  At(r, "running") /\ RunStep(r, [run[r] EXCEPT !.at = "failing"])

Collect(r) ==
  /\ At(r, "running")
  /\ RunStep(r, [run[r] EXCEPT !.at = "lookup", !.snapshot = source, !.todo = source])

\* _upsert_metadata: SELECT the row of the next table
LookUp(r) ==
  /\ At(r, "lookup")
  /\ \E t \in Table :
       /\ IsFirst(t, run[r].todo)
       /\ RunStep(r, [run[r] EXCEPT !.at = "write", !.read = row[t]])

Written(r, t, w, stage) ==
  [run[r] EXCEPT !.at = stage, !.todo = @ \ {t}, !.wrote = [@ EXCEPT ![t] = w]]

\* mutant: the UPDATE does not reset is_deleted
WriteTableNotRevived(r) ==
  /\ At(r, "write")
  /\ \E t \in Table :
       /\ IsFirst(t, run[r].todo)
       /\ ~Locked(r, t)
       /\ ~(run[r].read = "none" /\ row[t] # "none")
       /\ RunStep(r, Written(r, t, IF run[r].read = "none" THEN "live" ELSE "touch", "lookup"))

\* INSERT a row that was not found, UPDATE one that was
WriteTable(r) ==
  /\ At(r, "write")
  /\ \E t \in Table :
       /\ IsFirst(t, run[r].todo)
       /\ ~Locked(r, t)
       /\ ~(run[r].read = "none" /\ row[t] # "none")
       /\ RunStep(r, Written(r, t, IF run[r].read = "live" THEN "touch" ELSE "live", "lookup"))

\* _mark_deleted_tables: SELECT the live rows not collected
MarkDeleted(r) ==
  /\ At(r, "lookup") /\ run[r].todo = {}
  /\ RunStep(r, [run[r] EXCEPT !.at = "flush", !.todo = Live \ run[r].snapshot])

\* their UPDATEs are flushed by the commit, in the order of their ids, which
\* need not be the order of their names
FlushDeleted(r) ==
  /\ At(r, "flush")
  /\ \E t \in run[r].todo :
       /\ ~Locked(r, t)
       /\ RunStep(r, Written(r, t, "deleted", "flush"))

CommitSync(r) ==
  /\ At(r, "flush") /\ run[r].todo = {}
  /\ row' = [t \in Table |->
       IF run[r].wrote[t] \in {"live", "deleted"} THEN run[r].wrote[t] ELSE row[t]]
  /\ applied' = run[r].snapshot
  /\ status' = [status EXCEPT ![run[r].job] = "SUCCEEDED"]
  /\ run' = [run EXCEPT ![r] = Ended(r, "finished")]
  /\ UNCHANGED <<abandoned, retries, error, world, request, queue>>

\* only the task counts failures, from the count it has read
CommitFailure(r) ==
  /\ At(r, "failing")
  /\ status' = [status EXCEPT ![run[r].job] = "FAILED"]
  /\ retries' = IF run[r].inline THEN retries
                ELSE [retries EXCEPT ![run[r].job] = run[r].count + 1]
  /\ WriteError(r, "source")
  /\ run' = [run EXCEPT ![r] = Ended(r, "failed")]
  /\ abandoned' = abandoned \ {run[r].job}
  /\ UNCHANGED <<row, applied, world, request, queue>>

\* mutant: the task runs the sync again itself, with the count it has read
RetryInPlace(r) ==
  /\ At(r, "failed")
  /\ RunStep(r, [run[r] EXCEPT !.at = IF run[r].count + 1 < MaxRetries THEN "running" ELSE "finished"])

\* mutant: one retry too many
RetryOffByOne(r) ==
  /\ At(r, "failed")
  /\ run' = [run EXCEPT ![r].at = "finished"]
  /\ queue' = IF run[r].count + 1 <= MaxRetries
              THEN [queue EXCEPT ![run[r].job] = @ + 1] ELSE queue
  /\ UNCHANGED <<catalog, jobs, world, request>>

\* task.retry publishes a new message; the old one is acknowledged afterwards
Retry(r) ==
  /\ At(r, "failed")
  /\ run' = [run EXCEPT ![r].at = "finished", ![r].count = 0]
  /\ queue' = IF run[r].count + 1 < MaxRetries
              THEN [queue EXCEPT ![run[r].job] = @ + 1] ELSE queue
  /\ UNCHANGED <<catalog, jobs, world, request>>

Acknowledge(r) ==
  At(r, "finished") /\ RunStep(r, Idle)

(* An error of the control database ends a run without a commit and without *)
(* a retry: a row inserted by another session since it was looked up        *)
(* (uq_table_identity), or a deadlock, which PostgreSQL breaks.             *)
Break(r) ==
  /\ run' = [run EXCEPT ![r] = Idle]
  /\ abandoned' = abandoned \cup {run[r].job}
  /\ UNCHANGED <<row, applied, jobs, world, request, queue>>

Conflict(r) ==
  /\ At(r, "write") /\ run[r].read = "none"
  /\ \E t \in Table : IsFirst(t, run[r].todo) /\ row[t] # "none" /\ ~Locked(r, t)
  /\ Break(r)

Deadlock(r) ==
  /\ \E s \in Slot \ {r}, t, u \in Table :
       Target(r, t) /\ Holds(s, t) /\ Target(s, u) /\ Holds(r, u)
  /\ Break(r)

-----------------------------------------------------------------------------
(* A worker dies: its transaction is rolled back and its message delivered  *)
(* again.  The API process dies: the requests it was serving are gone.  A   *)
(* message that is not acknowledged in time is delivered again while its    *)
(* task is still running.                                                   *)

\* mutant: the message was acknowledged when the task started
CrashWorkerEarlyAck(r) ==
  /\ run[r] # Idle
  /\ faults < MaxFaults
  /\ faults' = faults + 1
  /\ run' = [run EXCEPT ![r] = Idle]
  /\ UNCHANGED <<catalog, jobs, source, lapsed, changes, request, queue>>

CrashWorker(r) ==
  /\ run[r] # Idle
  /\ faults < MaxFaults
  /\ faults' = faults + 1
  /\ queue' = IF run[r].inline THEN queue ELSE [queue EXCEPT ![run[r].job] = @ + 1]
  /\ run' = [run EXCEPT ![r] = Idle]
  /\ UNCHANGED <<catalog, jobs, source, lapsed, changes, request>>

CrashRequest(j) ==
  /\ request[j] \in {"flushed", "dispatched"}
  /\ faults < MaxFaults
  /\ faults' = faults + 1
  /\ request' = [request EXCEPT ![j] = "ended"]
  /\ UNCHANGED <<catalog, jobs, source, lapsed, changes, queue, run>>

Redeliver(r) ==
  /\ run[r] # Idle /\ ~run[r].inline
  /\ faults < MaxFaults
  /\ faults' = faults + 1
  /\ queue' = [queue EXCEPT ![run[r].job] = @ + 1]
  /\ UNCHANGED <<catalog, jobs, source, lapsed, changes, request, run>>

\* somebody creates or drops a table in the source
ChangeSource(t) ==
  /\ changes < MaxChanges
  /\ changes' = changes + 1
  /\ source' = IF t \in source THEN source \ {t} ELSE source \cup {t}
  /\ lapsed' = (lapsed \/ 1 \notin source')
  /\ UNCHANGED <<catalog, jobs, faults, request, queue, run>>

SyncStep(r) ==
  \/ CredentialError(r) \/ StartSync(r) \/ SourceError(r) \/ Collect(r)
  \/ LookUp(r) \/ WriteTable(r) \/ MarkDeleted(r) \/ FlushDeleted(r)
  \/ CommitSync(r) \/ CommitFailure(r) \/ Retry(r) \/ Acknowledge(r)
  \/ Conflict(r) \/ Deadlock(r)

Next ==
  \/ \E j \in Job : \/ FlushJob(j) \/ Dispatch(j) \/ CommitJob(j) \/ CrashRequest(j)
                    \/ \E r \in Slot : RunInline(r, j) \/ LoadJob(r, j)
  \/ \E r \in Slot : SyncStep(r) \/ CrashWorker(r) \/ Redeliver(r)
  \/ \E t \in Table : ChangeSource(t)

Spec == Init /\ [][Next]_vars

(* A task or a request that has begun keeps running; whether another message *)
(* is ever taken does not matter to it.                                      *)
Fairness == \A r \in Slot : WF_vars(SyncStep(r))

FairSpec == Spec /\ Fairness
-----------------------------------------------------------------------------
(* Rows, jobs and runs have the types of their columns and fields.           *)
TypeOK ==
  /\ source \subseteq Table /\ applied \subseteq Table /\ abandoned \subseteq Job
  /\ row \in [Table -> RowStatus]
  /\ status \in [Job -> JobStatus]
  /\ retries \in [Job -> Nat]
  /\ error \in [Job -> JobError]
  /\ request \in [Job -> RequestStage]
  /\ queue \in [Job -> Nat]
  /\ run \in [Slot -> Run \cup {Idle}]
  /\ lapsed \in BOOLEAN /\ faults \in 0..MaxFaults /\ changes \in 0..MaxChanges

(* The live tables of the catalog are those the last sync collected, never a *)
(* mixture of two (sync.py:4).                                               *)
CatalogIsOneSync == Live = applied

(* It is so whatever syncs overlap while the source has its first table: all *)
(* of them update that one first, and wait for each other before they look   *)
(* up the rest.                                                              *)
CatalogIsSnapshot == ~lapsed => CatalogIsOneSync

(* "达到 MAX_RETRIES 后不再重试": a job fails at most MAX_RETRIES times, and   *)
(* once more for each time its message is delivered again, by a crash or by  *)
(* the visibility timeout.                                                   *)
RetriesBounded == \A j \in Job : retries[j] <= MaxRetries + faults

(* A failure that is to be retried is not forgotten: the message is in the   *)
(* broker or a worker has it, through crashes between commit and retry,      *)
(* unless a later run hit an error of the control database, or a credential. *)
RetryNotLost ==
  \A j \in Job :
    status[j] = "FAILED" /\ error[j] = "source" /\ retries[j] \in 1..(MaxRetries - 1) =>
    \/ j \in abandoned
    \/ queue[j] > 0
    \/ \E r \in Slot : run[r] # Idle /\ run[r].job = j

(* A run that has started ends: no wait for a lock lasts for ever.           *)
RunEnds == \A r \in Slot : run[r] # Idle ~> run[r] = Idle

(* A job committed as PENDING is still to be run.                            *)
PendingJobHasMessage ==
  \A j \in Job : status[j] = "PENDING" =>
    \/ queue[j] > 0
    \/ \E r \in Slot : run[r] # Idle /\ run[r].job = j
=============================================================================
