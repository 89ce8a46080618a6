------------------------------- MODULE IndexBuild -------------------------------
(***************************************************************************)
(* Rebuilding the schema search index: the command that starts a build     *)
(* (scripts/rebuild_index.py), the task that runs it                       *)
(* (server/tasks/index_build.py) and the batch and pointer rows it leaves  *)
(* (server/search/index_status.py), while syncs and annotations change the *)
(* catalog.                                                                *)
(*                                                                         *)
(* A build is one transaction on the control database, from the INSERT of  *)
(* its batch to its commit; the batch key is unique, so another build with *)
(* the same key waits at its INSERT.  What it writes to OpenSearch is in   *)
(* no transaction: documents replace those of the index in service, one by *)
(* one, also after the build that sent them has given up or died.          *)
(***************************************************************************)
EXTENDS Naturals, FiniteSets

CONSTANTS
  Doc,          \* the tables and columns, by their document ids
  Table,        \* the tables among them
  Owner,        \* the table of each column
  Scopes,       \* the sets of tables a build can be restricted to (datasource_id)
  Key,          \* batch keys
  NoKey,        \* no batch has been published
  Slot,         \* worker processes and shells that run a build
  Idle,         \* marks a free slot
  MaxRequests,  \* bound on the builds started
  MaxFaults,    \* bound on crashes and redeliveries
  MaxChanges    \* bound on the changes of the catalog

ASSUME DocAssumption == Table \subseteq Doc /\ Owner \in [Doc \ Table -> Table]
ASSUME DocFiniteAssumption == IsFiniteSet(Doc)
ASSUME ScopesAssumption == Scopes \subseteq SUBSET Table
ASSUME MarksAssumption == NoKey \notin Key
ASSUME BoundsAssumption == MaxRequests \in Nat /\ MaxFaults \in Nat /\ MaxChanges \in Nat

VARIABLES
  catalog,   \* the live rows of table_metadata and column_metadata: their revision; 0: none
  index,     \* the documents in OpenSearch: the revision they were built from; 0: none
  late,      \* documents OpenSearch has received from builds that no longer wait for it
  outcome,   \* index_batch.status as committed, by batch_key; "none": no row
  content,   \* history: the documents of the batch published under a key
  pointer,   \* published_index_version, by batch_key
  queue,     \* messages in the broker, by batch_key
  run,       \* the build in each slot, or Idle
  requests,  \* builds started so far
  faults,    \* crashes and redeliveries so far
  changes    \* changes of the catalog so far

batches == <<outcome, content, pointer>>
counters == <<requests, faults, changes>>
vars == <<catalog, index, late, outcome, content, pointer, queue, run, requests, faults, changes>>

Revision == 0..(MaxChanges + 1)
Docs == [Doc -> Revision]
NoDocs == [d \in Doc |-> 0]
Holding == {"loading", "columns", "bulk", "publishing", "pointing", "failing"}
Stage == {"taken", "finished"} \cup Holding

\* docs: what the build has loaded; sent: handed to OpenSearch and not yet
\* written or refused; indexed: written
Build == [key : Key, inline : BOOLEAN, at : Stage, docs : Docs,
          sent : SUBSET Doc, indexed : SUBSET Doc]

NewBuild(k, inline) ==
  [key |-> k, inline |-> inline, at |-> "taken", docs |-> NoDocs, sent |-> {}, indexed |-> {}]

Loaded(docs) == {d \in Doc : docs[d] # 0}
At(r, stage) == run[r] # Idle /\ run[r].at = stage

\* a step of one build that commits nothing
BuildGoes(r, rec) ==
  /\ run' = [run EXCEPT ![r] = rec]
  /\ UNCHANGED <<catalog, index, late, batches, queue, counters>>

\* the end of a build: a task still has its message to acknowledge
Ended(r) == IF run[r].inline THEN Idle ELSE [NewBuild(run[r].key, FALSE) EXCEPT !.at = "finished"]

-----------------------------------------------------------------------------
\* before the first sync of the data source, or after it
Init ==
  /\ catalog \in {NoDocs, [d \in Doc |-> 1]}
  /\ index = NoDocs
  /\ late = {}
  /\ outcome = [k \in Key |-> "none"]
  /\ content = [k \in Key |-> NoDocs]
  /\ pointer = NoKey
  /\ queue = [k \in Key |-> 0]
  /\ run = [r \in Slot |-> Idle]
  /\ requests = 0 /\ faults = 0 /\ changes = 0

(* rebuild_index.py --via-celery, or without it in the shell; the operator   *)
(* may give the key of an earlier build.                                     *)
Dispatch(k) ==
  /\ requests < MaxRequests
  /\ requests' = requests + 1
  /\ queue' = [queue EXCEPT ![k] = @ + 1]
  /\ UNCHANGED <<catalog, index, late, batches, run, faults, changes>>

RunInline(r, k) ==
  /\ requests < MaxRequests
  /\ run[r] = Idle
  /\ requests' = requests + 1
  /\ run' = [run EXCEPT ![r] = NewBuild(k, TRUE)]
  /\ UNCHANGED <<catalog, index, late, batches, queue, faults, changes>>

TakeTask(r, k) ==
  /\ run[r] = Idle
  /\ queue[k] > 0
  /\ queue' = [queue EXCEPT ![k] = @ - 1]
  /\ run' = [run EXCEPT ![r] = NewBuild(k, FALSE)]
  /\ UNCHANGED <<catalog, index, late, batches, counters>>

-----------------------------------------------------------------------------
\* a batch with the same key is in a transaction that has not ended
KeyLocked(r) ==
  \E s \in Slot \ {r} : run[s] # Idle /\ run[s].key = run[r].key /\ run[s].at \in Holding

\* mutant: the batch key is not unique
InsertBatchAnyKey(r) ==
  /\ At(r, "taken")
  /\ BuildGoes(r, [run[r] EXCEPT !.at = "loading"])

\* a key that is taken raises outside the handler that records failures
InsertBatch(r) ==
  /\ At(r, "taken")
  /\ ~KeyLocked(r)
  /\ BuildGoes(r, IF outcome[run[r].key] = "none"
                  THEN [run[r] EXCEPT !.at = "loading"] ELSE Ended(r))

\* _load_metadata: two statements, each of which sees what is committed by then
LoadTables(r) ==
  /\ At(r, "loading")
  /\ \E scope \in Scopes :
       BuildGoes(r, [run[r] EXCEPT !.at = "columns",
         !.docs = [d \in Doc |-> IF d \in scope THEN catalog[d] ELSE 0]])

\* the documents are built from the rows and sent, all in one bulk request
SendBulk(r, docs) ==
  BuildGoes(r, [run[r] EXCEPT !.at = "bulk", !.docs = docs, !.sent = Loaded(docs)])

\* mutant: the columns are not restricted to the tables that were loaded
LoadColumnsOfAll(r) ==
  /\ At(r, "columns")
  /\ SendBulk(r, [d \in Doc |-> IF d \in Table THEN run[r].docs[d] ELSE catalog[d]])

LoadColumns(r) ==
  /\ At(r, "columns")
  /\ SendBulk(r, [d \in Doc |-> IF d \in Table THEN run[r].docs[d]
                                ELSE IF run[r].docs[Owner[d]] # 0 THEN catalog[d] ELSE 0])

\* the embedding model is missing, or OpenSearch cannot be reached
BuildError(r) ==
  /\ run[r] # Idle /\ run[r].at \in {"loading", "columns"}
  /\ BuildGoes(r, [run[r] EXCEPT !.at = "failing"])

\* OpenSearch writes one document of a bulk request over the one it has, or
\* refuses it
IndexDoc(r, d) ==
  /\ At(r, "bulk") /\ d \in run[r].sent
  /\ index' = [index EXCEPT ![d] = run[r].docs[d]]
  /\ run' = [run EXCEPT ![r].sent = @ \ {d}, ![r].indexed = @ \cup {d}]
  /\ UNCHANGED <<catalog, late, batches, queue, counters>>

RefuseDoc(r, d) ==
  /\ At(r, "bulk") /\ d \in run[r].sent
  /\ BuildGoes(r, [run[r] EXCEPT !.sent = @ \ {d}])

\* what OpenSearch has received of a bulk request whose sender is gone
Unfinished(r) == {<<d, run[r].docs[d]>> : d \in run[r].sent}

\* the request times out or fails; the server goes on with what it has
BulkError(r) ==
  /\ At(r, "bulk")
  /\ late' = late \cup Unfinished(r)
  /\ run' = [run EXCEPT ![r].at = "failing", ![r].sent = {}]
  /\ UNCHANGED <<catalog, index, batches, queue, counters>>

IndexLate(w) ==
  /\ late' = late \ {w}
  /\ index' = [index EXCEPT ![w[1]] = w[2]]
  /\ UNCHANGED <<catalog, batches, queue, run, counters>>

\* OpenSearch refuses a bulk request with nothing in it
Replied(r) == At(r, "bulk") /\ run[r].sent = {} /\ Loaded(run[r].docs) # {}

\* mutant: the count of OpenSearch is not compared
CompareMilvusOnly(r, milvus) ==
  /\ Replied(r)
  /\ LET match == milvus = Cardinality(Loaded(run[r].docs)) IN
     BuildGoes(r, [run[r] EXCEPT !.at = IF match THEN "publishing" ELSE "failing"])

\* after the reply: the counts of OpenSearch and Milvus must be that of the documents; Milvus
\* is only asked whether it is there, and counts all documents or none
CompareCounts(r, milvus) ==
  /\ Replied(r)
  /\ LET expected == Cardinality(Loaded(run[r].docs))
         match == Cardinality(run[r].indexed) = expected /\ milvus = expected IN
     BuildGoes(r, [run[r] EXCEPT !.at = IF match THEN "publishing" ELSE "failing"])

\* INSERT .. ON CONFLICT DO UPDATE: waits for a build that has done it too
UpsertPointer(r) ==
  /\ At(r, "publishing")
  /\ \A s \in Slot : ~At(s, "pointing")
  /\ BuildGoes(r, [run[r] EXCEPT !.at = "pointing"])

CommitPublished(r) ==
  /\ At(r, "pointing")
  /\ outcome' = [outcome EXCEPT ![run[r].key] = "PUBLISHED"]
  /\ content' = [content EXCEPT ![run[r].key] = run[r].docs]
  /\ pointer' = run[r].key
  /\ run' = [run EXCEPT ![r] = Ended(r)]
  /\ UNCHANGED <<catalog, index, late, queue, counters>>

\* mutant: the pointer was updated before the counts were compared
CommitFailedPointing(r) ==
  /\ At(r, "failing")
  /\ outcome' = [outcome EXCEPT ![run[r].key] = "FAILED"]
  /\ pointer' = run[r].key
  /\ run' = [run EXCEPT ![r] = Ended(r)]
  /\ UNCHANGED <<catalog, index, late, content, queue, counters>>

CommitFailed(r) ==
  /\ At(r, "failing")
  /\ outcome' = [outcome EXCEPT ![run[r].key] = "FAILED"]
  /\ run' = [run EXCEPT ![r] = Ended(r)]
  /\ UNCHANGED <<catalog, index, late, content, pointer, queue, counters>>

Acknowledge(r) == At(r, "finished") /\ BuildGoes(r, Idle)

-----------------------------------------------------------------------------
\* mutant: the message was acknowledged when the task started
CrashEarlyAck(r) ==
  /\ run[r] # Idle
  /\ faults < MaxFaults
  /\ faults' = faults + 1
  /\ late' = late \cup Unfinished(r)
  /\ run' = [run EXCEPT ![r] = Idle]
  /\ UNCHANGED <<catalog, index, batches, queue, requests, changes>>

(* A worker dies: its transaction is rolled back, its message delivered      *)
(* again, and what OpenSearch has received stays.                            *)
Crash(r) ==
  /\ run[r] # Idle
  /\ faults < MaxFaults
  /\ faults' = faults + 1
  /\ late' = late \cup Unfinished(r)
  /\ queue' = IF run[r].inline THEN queue ELSE [queue EXCEPT ![run[r].key] = @ + 1]
  /\ run' = [run EXCEPT ![r] = Idle]
  /\ UNCHANGED <<catalog, index, batches, requests, changes>>

(* The broker delivers a message again that is not acknowledged in time.     *)
Redeliver(r) ==
  /\ run[r] # Idle /\ ~run[r].inline
  /\ faults < MaxFaults
  /\ faults' = faults + 1
  /\ queue' = [queue EXCEPT ![run[r].key] = @ + 1]
  /\ UNCHANGED <<catalog, index, late, batches, run, requests, changes>>

(* A sync or an annotation commits: a new revision, or marked deleted.       *)
ChangeCatalog(d) ==
  /\ changes < MaxChanges
  /\ changes' = changes + 1
  /\ catalog' \in {[catalog EXCEPT ![d] = c] : c \in {0, changes + 2}}
  /\ UNCHANGED <<index, late, batches, queue, run, requests, faults>>

BuildStep(r) ==
  \/ InsertBatch(r) \/ LoadTables(r) \/ LoadColumns(r) \/ BuildError(r)
  \/ BulkError(r) \/ \E d \in Doc : IndexDoc(r, d) \/ RefuseDoc(r, d)
  \/ \E milvus \in {0, Cardinality(Loaded(run[r].docs))} : CompareCounts(r, milvus)
  \/ UpsertPointer(r) \/ CommitPublished(r) \/ CommitFailed(r) \/ Acknowledge(r)

Next ==
  \/ \E k \in Key : Dispatch(k) \/ \E r \in Slot : RunInline(r, k) \/ TakeTask(r, k)
  \/ \E r \in Slot : run[r] # Idle /\ BuildStep(r)
  \/ \E r \in Slot : Crash(r) \/ Redeliver(r)
  \/ \E w \in late : IndexLate(w)
  \/ \E d \in Doc : ChangeCatalog(d)

Spec == Init /\ [][Next]_vars

(* The worker process keeps taking messages and running its builds; a bulk  *)
(* request ends with a reply or with its timeout.                           *)
Fairness ==
  \A r \in Slot : /\ WF_vars(run[r] # Idle /\ BuildStep(r))
                  /\ \A k \in Key : WF_vars(TakeTask(r, k))

FairSpec == Spec /\ Fairness
-----------------------------------------------------------------------------
(* Rows, documents and builds have the types of their columns and fields.    *)
TypeOK ==
  /\ catalog \in Docs /\ index \in Docs
  /\ late \subseteq Doc \X Revision
  /\ outcome \in [Key -> {"none", "PUBLISHED", "FAILED"}]
  /\ content \in [Key -> Docs]
  /\ pointer \in Key \cup {NoKey}
  /\ queue \in [Key -> Nat]
  /\ run \in [Slot -> Build \cup {Idle}]
  /\ requests \in 0..MaxRequests /\ faults \in 0..MaxFaults /\ changes \in 0..MaxChanges

(* The pointer names a batch that was published, whatever fails: it moves in *)
(* the transaction that publishes the batch, after the counts agreed.        *)
PointerPublished == pointer # NoKey => outcome[pointer] = "PUBLISHED"

(* A published batch is complete: each of its documents is in the index, and *)
(* no column without its table, although the catalog changes between the two *)
(* statements that load it and documents are refused one by one.             *)
PublishedComplete ==
  \A k \in Key : outcome[k] = "PUBLISHED" =>
    \A d \in Loaded(content[k]) :
      index[d] # 0 /\ (d \notin Table => content[k][Owner[d]] # 0)

(* "幂等": a key has one outcome; a task delivered again after it ended       *)
(* neither changes it nor moves the pointer ("重试不能自动推进发布指针").        *)
OneOutcomePerKey ==
  [][/\ \A k \in Key : outcome[k] # "none" =>
          outcome'[k] = outcome[k] /\ content'[k] = content[k]
     /\ pointer' # pointer => outcome[pointer'] = "none"]_vars

(* A build that is in the queue ends with a batch, published or failed, also *)
(* when workers die and when another build with its key is running.          *)
BuildAnswered == \A k \in Key : queue[k] > 0 ~> outcome[k] # "none"

(* The index serves the published batch, never a mixture of it with a failed *)
(* build or with what an earlier one left: asked of the states in which no   *)
(* build is running and no write is outstanding.                             *)
ServedIsPublished ==
  (\A r \in Slot : run[r] = Idle) /\ late = {} /\ pointer # NoKey => index = content[pointer]
=============================================================================
