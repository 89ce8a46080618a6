# AtlasSQL: formal models and proofs

TLA+ models of the parts of AtlasSQL in which several actors share state or in
which a failure can strike between two steps, the TLC configurations that check
them on small instances, and TLAPS proofs of their safety properties for every
instance. Paths below are relative to the repository.

Contents: [1 The system](#1-the-system), [2 Modules](#2-modules),
[3 Runs](#3-runs), [4 Findings](#4-findings), [5 Proofs](#5-proofs),
[6 Abstractions](#6-abstractions), [7 Not modelled](#7-not-modelled),
[8 Plan](#8-plan).

## 1 The system

AtlasSQL answers questions about a business database: a FastAPI process
(`server/api/app.py`) serves queries and administration, a Celery worker started
by it (or separately) runs background tasks, PostgreSQL holds the control tables
and the business data, OpenSearch and Milvus hold the schema index, Redis is the
broker. All HTTP handlers are coroutines of one event loop; each has its own
SQLAlchemy session at READ COMMITTED.

| component | state | operations | interacts through | what makes it correct |
|---|---|---|---|---|
| Metric life cycle, verified queries (`server/semantic/lifecycle.py`, `verified_queries.py`, `server/api/semantic.py`) | `metric_definition`, `metric_version`, `metric_active_version`, `verified_query` | transition, publish, rollback, deprecate, seed; draft, verify, invalidate, re-validate | rows read and written by concurrent sessions | versions immutable and numbered without gaps, pointer valid, a published row is its version, published means tested, trusted queries reviewed against the versions in force |
| Semantic registry (`server/semantic/registry.py`) | metrics loaded in memory, YAML | seed, load_active_metrics, lookup | the same tables | seeding never edits a published metric |
| Metadata sync (`server/datasource/router.py`, `sync.py`, `server/tasks/metadata_sync.py`) | `metadata_sync_job`, `table_metadata`, `column_metadata`, broker messages | trigger, dispatch, run, retry | Celery message sent inside an open transaction; row locks; the source database | the catalog is one snapshot, jobs end, retries bounded |
| Catalog annotation (`server/metadata/router.py`) | `manual_*` columns | annotate table, column | rows a sync updates | assigns columns that no sync writes |
| Search index build (`scripts/rebuild_index.py`, `server/tasks/index_build.py`, `server/search/index_status.py`) | `index_batch`, `published_index_version`, documents in OpenSearch | start, load, bulk index, compare, publish | unique batch key, catalog rows, an index that is in service while it is written | pointer names published batches, published batches complete, one outcome per key, what is served is what was published |
| Query orchestration (`server/orchestrator/query.py`, `server/query/repository.py`, `server/api/query.py`) | `query_record` | submit, get | trace ids chosen by clients; a session that breaks | an outcome is final, the answer agrees with the record, every request is answered |
| Generation (`server/orchestrator/pipeline.py`, `server/generation/v3_pipeline.py`, `server/llm/gateway.py`) | attempt count, deadline | generate, retry, time out, validate | the model, one budget with the executor | stays within `query_timeout_ms` |
| Executor (`server/execution/postgres.py`) | semaphore, lazily created pool, lock | execute, create pool | all requests of the process | one pool, at most `query_max_concurrency` users, everything given back on every path |
| SQL validation (`server/validation/sql.py`) | none | validate | called by generation | a pure verdict on a parsed tree |
| Scope, routing, intent (`server/domain/`) | none | assess scope, route, parse periods, select tables | called by submit and by the workbench | a question is accepted, refused or asked back for a reason; a period is a range of real days |
| Retrieval (`server/search/`, `server/linking/value.py`) | none between requests | two level search, fuse, rerank, trim, link values | OpenSearch and Milvus, either of which may answer late, time out or fail | the fusion follows both rankings, key columns are kept, the budget holds |
| Linking (`server/linking/`) | join graph, glossary, registry | link metrics, dimensions, filters; find join paths, complete a schema | catalog, registry | all shortest join paths within the depth bound; completed tables hang together; the newer linker links what the older one does |
| Prompt and context (`server/generation/context.py`, `prompt.py`, `v3_pipeline.py`) | none | build, trim | called by generation | shows tables that exist, budget kept and not trimmed more than needed |
| Business migrations, generator (`scripts/migrate_business.py`, `scripts/seed_data.py`, `datasets/`) | `business_schema_migration`, reader role and its grants, business tables, `dataset_run`, advisory lock | apply files, grant, truncate and copy, validate | concurrent runs of the scripts, files that change | each version applied once, whole and in order; the reader is granted what a finished run found; data is all of one data set |
| Workbench (`server/api/retrieval_workbench.py`) | none | inspect: route, retrieve, link, complete joins | retriever, linker and join graph of the application state | as its parts |
| Trace review, health, evaluation, consoles | review columns | read, label | | |

Hard behaviours: interleaving of statements of concurrent sessions; row locks,
unique keys and the deadlocks they allow; a message that overtakes the commit it
depends on; crashes of the worker and of the API process with redelivery; bulk
writes that are partly refused, or land after their sender has given up;
a database commit whose reply is lost; timeouts that strike while a lock, a
permit or a connection is held; scripts stopped between statements that are
committed one by one; two search routes of which one is out. `PROJECT.json` lists each at its line, under
`hazards`, with the property that watches it or the reason there is none.

## 2 Modules

| module | models | |
|---|---|---|
| `VersionRegister` | abstract: what the semantic layer promises of versions | a set of immutable versions per metric and a pointer |
| `MetricLifecycle` | life cycle and verified queries | implements `VersionRegister` |
| `MetadataSync` | trigger, task, upsert, broker, source | |
| `IndexBuild` | start, build, publish, over a changing catalog | |
| `QueryService` | orchestrator, generation, executor of one API process | |
| `NovaCatalog` | the tables and foreign keys of the business database | data of two other modules |
| `SeedRules` | the rows the generator makes, what COPY and the gates accept | |
| `BusinessDatabase` | runs of the migration and of the generator | extends `SeedRules` |
| `Lists` | selecting from a list by index | operators |
| `Routing` | scope, domains, metrics, periods, table selection of a question | operators |
| `Retrieval` | two-route search, fusion, reranking, two levels, budget, value linking | one request at a time |
| `Linking` | both linkers of metrics, dimensions and filters | operators |
| `JoinGraph` | loading, path search, completion | operators |
| `PromptContext` | schema of the live prompt, trimming of the context builder | operators |
| `Answering` | the live path and the workbench | composes the previous five with `NovaCatalog` |
| `MC*` | instances for TLC: the values and small operators a `.cfg` cannot write | |
| `*_proofs` | theorems | extend the module they are about; `Algorithms_proofs` is about `Lists` and `JoinGraph`, and has what the other proofs need of lists and sums |

The modules meet at the tables they share: `MetadataSync` writes the catalog
that `IndexBuild` reads (there `ChangeCatalog`: any committed change of any row,
which is what the syncs of `MetadataSync` and the annotations of administrators
amount to for a reader); a composed module is in the plan. `Answering` composes the modules a
question passes through. Operators named `...Off`, `...Twice`,
`...Unchecked` and the like, introduced by a comment `mutant:`, are plausible
bugs; no specification uses them. `PROJECT.json` pairs each with the property
that must fail when it replaces the action it imitates.

**MetricLifecycle.** The committed tables, and per request slot what the session
has read and not yet committed. `publish` goes through the statements it
executes: SELECT the metric (`BeginPublish`), SELECT the highest number
(`NumberVersion`), INSERT the version, which autoflush does before the next
SELECT (`InsertVersion`), SELECT the pointer (`ReadPointer`), UPDATE or INSERT
pointer and status (`FlushPublish`), SELECT the verified queries
(`MarkDependents`), COMMIT (`CommitPublish`). The other requests are a read and
a commit. Locks are not a variable: they follow from the stages. `Abort` ends a
session without a commit (error, disconnect, crash).

**MetadataSync.** `FlushJob`, `Dispatch`, `CommitJob` are the three steps of
`trigger_sync`: the message is sent between the flush and the commit, and a
dispatch that fails runs the sync inline. A run of a job is one transaction:
`LoadJob`, `StartSync`, `Collect`, then per table a SELECT (`LookUp`) and its
write (`WriteTable`), then `MarkDeleted`, `FlushDeleted`, `CommitSync`.
`wrote[t]` is what the transaction will commit for a row: SQLAlchemy emits an
UPDATE of `is_deleted` only when it differs from the value read, hence the value
"touch". Rows written stay locked until the end. `Conflict` is the unique key
`uq_table_identity`, `Deadlock` PostgreSQL ending one of two transactions that
wait for each other; neither is retried, because the session then fails its own
attempt to record the failure. Such a run, and one without a credential, is what
`abandoned` remembers: `RetryNotLost` promises a message or a run for every
failure that is to be retried, unless a later run of the job was abandoned. A
message whose run is not acknowledged comes back when its worker crashes
(`CrashWorker`), and by the visibility timeout also while it runs (`Redeliver`).

**IndexBuild.** A build is one transaction from `InsertBatch` to its commit.
`LoadTables` and `LoadColumns` are two statements and see what is committed by
then; one bulk request is written document by document (`IndexDoc`,
`RefuseDoc`), may fail or time out (`BulkError`), and what the server has then
received is written later or never (`IndexLate`). `CompareCounts` compares
counts, as the code does, not documents.

**QueryService.** One event loop; requests interleave at their awaits. `record`
is status and error code as committed. Time is in ticks, and a timer that has
run out fires before the next tick. The stages of a request follow `submit`
("create", "scope", "finish", "failing"), generation ("generating") and
`execute` ("semaphore", "pool", "lock", "creating", "acquire", "querying",
"releasing"); "broken" is a session whose flush or commit has failed and which
then refuses everything until a rollback that nobody calls.

**BusinessDatabase.** A run of the migration looks for the role (`LookForRole`),
creates and alters it, each statement committed by itself, lists the files once
(`ListFiles`), and takes them one by one: `ReadFile`, then one transaction under
`pg_advisory_xact_lock`: `TakeLock`, `CheckVersion`, `Execute`, `CommitVersion`.
After the last it grants (`GrantTables`, `AlterDefaults`). `AddFile` and
`RewriteFile` are the developer. A seed checks the version, then `Truncate`
locks every table and `CopyChunk`s follow, fixtures first, then each batch of
orders; `Validate` and `CommitSeed` end it. `StopMigrator` and `StopSeeder` end a
run anywhere, with the rollback that entails.

**SeedRules, NovaCatalog.** The rows as records of the columns that a key, a
reference or a gate looks at, computed by the generator's rules (every 29th
order cancelled, refunds counted across batches, and so on). A copy is a table and
a family of rows; `Copies` has the copies of a run by their place, chunk and number
in the chunk, and `Precedes` orders the places as `seed_database` writes them. The
catalog is the tables with their references in the order of `catalog.py`.

**Routing, Linking, JoinGraph, PromptContext.** The pure algorithms. A question
is the set of words and periods that the code looks for in it, closed under the
words contained in others, with the year and the number of days it names. A day
is `<<year, month, day>>`; going back N days goes through the number of the day
in the calendar, as Python does, and fails where the calendar begins. The search
over the graph is a recursive function of its queue, as the loop in the code is.
The graph is loaded from any columns with foreign keys (`ForeignKeys`, in the runs
those of the catalog) or any rows of relations.
Selections from lists are by index and rank (`Lists`), which can be reasoned about
where the recursive SelectSeq cannot.

**Retrieval.** `bm25` and `dense` are the answers of the two routes, which come in
either order: any ranking of the documents that pass the filters, a timeout
(DEGRADED) or an error (FAILED; for verified queries DEGRADED). `KeepTables`,
`KeepColumns`, `KeepExamples` and `AcceptValues` run when both have answered, as
`asyncio.gather` makes them. A candidate that only Milvus found carries no more
than `DEFAULT_OUTPUT_FIELDS`, hence no names and no key flags (`full` is FALSE).

**Answering.** `Ask` is the live path to the prompt, `RouteQuestion`, `Inspect` and
`Reply` the workbench; `Join`, `JoinLoaded` and `Build` call the join graph and the
context builder with arguments of their own. One call at a time: they share no
state.

## 3 Runs

| run | instance | checks |
|---|---|---|
| `lifecycle_concurrent` | 1 metric, 1 query, 2 contents, 2 request slots, 2 versions, every target of a transition | `TypeOK`, `VersionNumbersContiguous`, `ActivePointsAtVersion`, `PublishExclusive`, `PointerInsertSafe`, `PublishIsNewest`, `ImplementsRegister`, `PublishEnds`, `TrustKeptApart`, `ReleaseShownApart` |
| `lifecycle_stale_trust` | 2 slots | violation of `TrustedQueriesFresh` |
| `lifecycle_untested` | 1 slot | violation of `PublishedWasTested` |
| `sync` | 2 jobs, 2 slots, 2 tables, MAX_RETRIES 2, 1 crash or redelivery, 1 change of the source | `CatalogIsSnapshot`, `RetriesBounded`, `RetryNotLost`, `RunEnds` |
| `sync_lost_job` | 1 slot is enough | violation of `PendingJobHasMessage` |
| `sync_lost_update` | 2 jobs, 2 slots, 2 tables, 2 changes of the source | violation of `CatalogIsOneSync` |
| `index_build` | 1 table with 1 column, 2 keys, 2 slots, 2 builds, 1 fault, 1 change | `PointerPublished`, `PublishedComplete`, `OneOutcomePerKey`, `BuildAnswered` |
| `index_mixed` | 1 slot, no fault | violation of `ServedIsPublished` |
| `query_service` | 2 requests, 2 trace ids, 1 or 2 permits, timeouts 3 and 2 ticks, 1 retry, 1 crash | `TypeOK`, `BudgetKept`, `OnePool`, `AnsweredAsRecorded`, `RecordFinal`, `RequestAnswered` |
| `business_db` | 2 migrations, 2 seeds, any 2 under way at once, 2 versions, 1 rewrite of each file, 2 profiles | `MigrationAtomic`, `MigrationsInOrder`, `FinishedRunGrants`, `SnapshotWhole`, `SeedNeverRefused`, `RunsEnd` |
| `answering` | questions of up to 2 periods on 5 days, 9 business questions, 8 metrics; 2 tables, 3 columns and 1 example in the indexes; the whole join graph of the catalog, and 67 graphs over 8 tables | `FusedFairly`, `RangesSound`, `JoinsShortest`, `CompletionJoined`, `SemanticLinksMore`, `ContextTrimmed`, `KeysKept` |
| `answering_schema` | the same | violation of `PromptPhysical` |

Why the bounds are enough to make the interesting cases happen, and no less:

- Two slots, jobs, builds, runs or requests are a race; every hazard listed is one
  between two actors. Rows of different metrics only meet in queries that depend on
  both; the theorems cover any number of them. Two contents let a row differ from
  its version.
- Publishes in the runs of the life cycle ask for a regression run (`RequireFlags`
  is {TRUE}). `require_regression=False`, the waiver `lifecycle.py:230` documents
  and the console can send, only lets a version be bound to no run, and nothing in
  the code reads that again; the theorems hold with and without it. In
  `lifecycle_untested` it keeps the waiver out of the trace: even without it, a
  metric gets PUBLISHED untested.
- Two tables are needed for a deadlock and for a mixture of two snapshots. The
  first by name matters: as long as the source has it, every sync locks its row
  before it looks up the rest, and the catalog is one snapshot
  (`CatalogIsSnapshot`, whose condition is the history variable `lapsed`); once
  the source has lacked it, two syncs may lock different rows first, and the
  catalog may be a mixture (`sync_lost_update`). The shipped business schema,
  whose first table is permanent, never gets there.
- One table with one column is the smallest catalog with a torn load and with a
  bulk request that is partly refused.
- Budgets of 3 and 2 ticks let the statement timeout be the smaller, the larger
  and the equal one, and the budget be used up before execution, so that the
  `max(1, ...)` of `SafeQueryPipeline.run` decides.
- Two versions of which one has a file at the start: a file appears after one run
  listed its files and before another did. One rewrite makes a checksum differ.
  The profile `tiny` is the one of the generator; the larger one has two batches,
  an order with more lines and refunds in both batches.
- Two tables, one key column and two plain columns let each route find one, both
  or neither in each order, a column of a table that was not kept, and a budget
  of 75 tokens that two tables and three columns exceed. The days are the first
  and last of a month, of a year and of a leap February. Graphs with a cycle, a
  parallel join, two paths of one length and a chain of more than five joins,
  with up to two edges inactive, are those in which pruning by depth could lose a
  path.
- `MaxVersion`, `MaxCrashes`, `MaxFaults`, `MaxChanges`, `MaxRequests`,
  `MaxActive`, `MaxRewrites` bound counters in guards. The proofs hold for every
  value of them.
- Symmetry (permutations of the slots) is used in `sync_lost_update` alone, where
  no liveness is checked.

Deadlock is checked in the runs of the life cycle, where some request can always
begin. It is off in the others: a job that is done, a queue that is empty, a
script that has ended or a service without requests may stop, and the histories
are bounded.

Fairness, and why the code justifies it:

- `PublishEnds`: a session that holds its version row executes its next
  statement or is aborted; nothing in `publish` waits for a client.
- `RunEnds`, `BuildAnswered`: the worker process keeps running a task it has
  begun, and for `BuildAnswered` keeps taking messages; a deadlock is broken by
  PostgreSQL; requests to the source and to OpenSearch end, with a result or with
  their own timeout.
- `RequestAnswered`: the event loop runs what can run, time passes and timers
  fire. The commits of the control database end, in success or not. Nothing is
  assumed of the model or the business database: neither `GenerationReturns` nor
  `QueryProceeds` is fair, and the latter includes `Release`, the ROLLBACK and the
  return of a connection, which are requests to the business database as well.
  What is promised is therefore an answer, or a request that has only its
  connection to give back ("releasing"). A semaphore or a lock that comes free is taken by some waiter, and one
  that is never given it times out, so fairness per request is not needed.
- `RunsEnd`: a script executes its next statement. Weak fairness is enough,
  although the lock is contended: a run passes the lock a bounded number of
  times, so it cannot be taken from a waiter for ever.

## 4 Findings

Runs with the expectation "violation" contradict a sentence of the repository.

- **A job that is never run** (`sync_lost_job`). The message is sent at
  `router.py:273`, the job row is committed at line 291. A worker that is quick
  enough finds no job, returns `not_found`, and is not retried; the job stays
  PENDING for ever, although its client is told to poll it.
- **A mixture of two snapshots** (`sync_lost_update`). Two syncs look a table up
  before either locks it. One reads it as live and leaves `is_deleted` alone, the
  other marks it deleted and commits first: the later sync found the table, and
  the catalog says deleted. Two runs at once need two worker processes, or a
  worker and an inline request: the worker that the API starts itself uses the
  solo pool, one task at a time.
- **The served index is a mixture** (`index_mixed`). Builds write into the index
  that is in service before they are known to succeed, and never delete the
  documents of objects that are gone. A failed build is visible to search, and a
  column dropped since stays, although pointer and batch rows exist to prevent it.
- **A review that overtakes a publish** (`lifecycle_stale_trust`). A verify that
  commits between the SELECT of the verified queries and the commit of the publish
  stays VERIFIED, although its reviewer saw the old version.
- **Published without a version** (`lifecycle_untested`). `transition` accepts
  TESTING to PUBLISHED (`lifecycle.py:71`), and its endpoint passes on any target:
  the metric is PUBLISHED without a version, a pointer or a regression run.
  `lifecycle.py:8` and `models.py:212` promise all three, and the endpoint itself
  speaks of "DRAFT↔TESTING" only (`api/semantic.py:222`).
- **A prompt with a table that is not there** (`answering_schema`). The live
  prompt shows the tables and columns a metric is declared to depend on, without
  looking them up. Some metrics of `semantic_models/v3/metrics.yaml`, such as
  `inbound_quantity`, depend on tables the business schema does not have.

Observed while reading, not the subject of a run:

- `deprecate` leaves the pointer, so `load_active_metrics` goes on returning a
  metric that its docstring (`lifecycle.py:380`) says is no longer loaded.
- Two overlapping requests may lose a change of status, since only changed
  attributes are written; `verify` and `invalidate` may end in VERIFIED after
  INVALID was committed.
- `rollback` does not invalidate the verified queries, although the semantics in
  force change (`models.py:404` says they do for any change).
- The republish path the docstring of `lifecycle.py` describes cannot be reached
  through the API.
- A batch key that failed can never be built again: the INSERT of the next
  attempt raises. `plan` speaks of an idempotent retry.
- The pointer goes to the build that commits last, not to the one that read the
  newest catalog; a build restricted to one data source moves the global pointer.
- A process that dies between the commits of `submit` leaves the record
  `processing` for ever; nothing recovers it.
- A second submission of a trace id is answered `internal_error`, also when the
  first one succeeded and could be returned. `InMemoryQueryRepository` would
  even overwrite the first outcome (compare the mutant of `RecordFinal`);
  `SQLAlchemyQueryRepository` does not, but only because its session is broken
  by then.

- `execute` promises to get and to give back its connection within the budget
  (`postgres.py:84`). The ROLLBACK and the return after a timeout (`postgres.py:96-97`)
  are outside the timer and wait for the business database.

In the business database:

- CREATE ROLE and ALTER ROLE are committed separately
  (`migrate_business.py:61`). A run that stops between them leaves a role whose
  transactions are not read-only by default, and later runs, which find the role,
  skip both statements.
- The version is checked before the transaction of a seed begins; a migration may
  commit in between.

On the way from a question to a prompt:

- A route that ran into its timeout is DEGRADED, and `_merge_and_fuse`
  (`hybrid.py:154`) treats only FAILED as out: fused scores of one route take the
  place of its own, and the result is reported OK, where `hybrid.py:7-8` promises
  DEGRADED and the results of the other route.
- A fused score is at most 2/61, the threshold of a value match 0.7
  (`value.py:192`, `300`). The search for similar values, an ordinary strategy in
  `value.py:8-12` and `altassql-book/stages/v2.md:214`, therefore links nothing
  unless a route has FAILED and the scores of the other one are not fused. A match
  that only Milvus found is labelled ".", because its payload has no names.
- Two orders of trimming are written down. The docstring of the module drops
  columns of low score, then examples, then descriptions (`context.py:18`); that of
  the function (`context.py:375`) and the code drop examples, then columns, and no
  descriptions. `ContextTrimmed` is of what both orders share: nothing dropped can
  be put back, and keys stay. Time fields, which `context.py:397` and
  `retrieval.py:10` say are kept, are trimmed like other columns.
- When OpenSearch is out no column enters the context at all, for the same reason
  (`retrieval.py:188`), and tables are known by document id, so that every join
  between them is reported missing.
- Without a reranker key columns beyond the first `top_n` are lost. `retrieve` does
  not look at the status of a search, and the embedding of a question has no
  timeout.
- "同比" asked on 29 February raises (`router.py:326`), "近800000天" reaches back
  before the calendar and raises too (`router.py:286`), and "近0天" is a range that
  ends before it begins; `RangesSound` states exactly these exceptions.
- "收入" is one of the ambiguous words and part of "销售收入", so asking for the
  latter always leads to a question back; "毛利率" also selects "毛利". The branch for
  a low confidence cannot be reached.
- The three tables of aliases (registry, glossary, linkers' own) disagree; a synonym
  claimed twice goes to the first metric, a label to the last.
  `confidence_threshold` of both linkers is not used.
- 20 pairs of catalog tables have more than one shortest join path; the first is
  taken, while `join_graph.py:6` speaks of asking. `complete_schema` looks for
  fan-out among the selected tables, not among those it adds.
- `select_relevant_tables` leaves out tables that only join others, and columns of
  the live prompt never show their foreign keys.
- `app.py` sets no retriever, linker or join graph for the workbench, and does not
  include its router.

## 5 Proofs

Checked by TLAPS for every value of the constants, under the named `ASSUME`s of
the modules only: types of the constants; `Request`, `Doc` and `Slot`, and the
documents of a search, finite; runs of migration and seed distinct; profiles with
at least 20 orders of at least two lines (`ProfilesAssumption`; the smallest of
`PROFILES` has 24 of 3); raw scores fractions of naturals (`ScoresAssumption`); the parts of a context counts
(`PartsAssumption`); questions with a number of days or none (`QuestionsAssumption`)
and days of the years 2 to 9998, which have a year before and after them
(`DaysAssumption`); foreign keys and relations finite lists, with sets of their
places (`JoinsAssumption`); ids of documents different, and no document named like
one (`IdsAssumption`: an id begins with the type, `search/document_id.py`). TLC
evaluates each of them on the instances.

| module | theorems |
|---|---|
| `MetricLifecycle_proofs` | `TypeCorrect`, `NumbersContiguous`, `PointerValid`, `Exclusion`, `NoPointerConflict`, `NewestInForce`, `Refinement`; `TrustKept`, `ReleaseShown` |
| `IndexBuild_proofs` | `TypeCorrect`, `PointerValid`, `BatchesComplete`, `OutcomeFinal` |
| `QueryService_proofs` | `TypeCorrect`, `AnswersRecorded`, `WithinBudget`, `PoolUnique`, `RecordsFinal` |
| `BusinessDatabase_proofs` | `TypeCorrect`, `VersionsAtomic`, `VersionsOrdered`, `GrantsComplete`, `DataWhole`, `SeedKeys`, `SeedReferences`, `SeedCopied`, `SeedValidated`, `SeedsAccepted` |
| `MetadataSync_proofs` | `TypeCorrect`, `RowLocks`, `SnapshotCorrect`, `RetriesCorrect`, `NotLost` |
| `Algorithms_proofs` | `Ranks`, `Selections`, `PathsShortest`, `CompletionOk`, `CompletionKnown` |
| `Retrieval_proofs`, `Answering_proofs` | `FusionFair`, `KeysStay`, `Budgeted`, `SemanticLinkerComplete`, `TimeRangesSound`, `JoinPathsShortest`, `CompletionsJoined` |

Each module of a component proves an invariance theorem (`Invariance`, `ApartInvariance`,
`SearchInvariance`), from which and the step relation the others follow. The
inductive invariants were model-checked before they were proved.

- *Metric life cycle.* `publish` takes no lock, so the heart of the argument is
  that "max + 1" and the unique key make one. Numbers are contiguous; a publish
  that has INSERTed number n has found 1..n-1, and no row n, committed
  (`InFlight`); a second one in the same stage would have INSERTed the same
  number, which the key forbids. From exclusion follows that nobody inserts the
  pointer between the SELECT that missed it and the INSERT, and that the highest
  version is the one put in force. `RollbackTargets` keeps the targets of
  rollbacks in flight valid, since versions are never deleted. The refinement
  maps `CommitPublish` to `Publish`, `CommitRollback` to `MovePointer` (or a
  stutter), and every other step to a stutter.
- *Requests apart.* That a trusted query was reviewed against the versions in force
  fails when requests overlap (`lifecycle_stale_trust`), and so does that the row of
  a published metric is its version. Both are checked and proved for any requests as
  long as no two in flight change the same metric, nor one verifies a query that
  rests on a metric another one changes (`TrustKeptApart`, `ReleaseShownApart`:
  `[]Apart => []...`); one request at a time is the special case, and transitions may
  have any target. `SlotsAgree`: what a request has read is then still so when it
  commits; `SnapshotsFresh`: also the row that a publish makes a version of.
  `PublishedOnce`: a metric leaves PUBLISHED for DEPRECATED only and DEPRECATED
  never, so it is published at most once, and a rollback finds the version in force.
- *Index build.* `KeyInv`: between INSERT and commit a build is in a critical
  section of its key, in which the key has no outcome; a commit leaves the
  section and gives the outcome in the same step, so it is given once and the
  pointer never moves to a key that had one. `DocsInv`: documents in the index are
  only replaced by documents, so what a build counted as indexed is still there;
  indexed documents are among the loaded ones, and two finite sets of equal
  cardinality, one in the other, are equal: comparing counts is enough. Columns
  are loaded for loaded tables only, hence never without their table.
- *Query service.* `RecordInv`: a request that may still write a record owns it,
  having created it, and an owned record is `processing`; a request that failed to
  create it is "broken" and writes nothing. `BudgetInv`: spent and left add up to
  the budget while generating, and to at most one tick more while executing.
  `PoolInv`: whoever creates the pool holds the lock and has seen, under it, that
  there is none. `PermitInv`: only `TakePermit` adds a holder, after counting them.

- *Business database.* `LockOwned`: the owner of the advisory lock is the run
  between the lock and its commit, so what it has read of its version there stays
  true (`VersionReady`: nobody else records it, and its statements have had no
  effect). `ListOrdered`: files are numbered without gaps and taken in order, so
  whatever is below a file still to be applied is recorded, before it in the same
  list, or in hand; a run that finds a changed file stops instead of going on.
  `SeenGranted`: what a run has seen is recorded, and recorded is granted by the
  statement after the last file; nothing revokes. `SeederInv`: a seed is validated
  after all of its batches, and only its commit is visible.
- *Generated rows.* A seed is never refused (`SeedsAccepted`), whatever its profile:
  so for `dev` and `scale` as they are, with 20 000 and 200 000 orders, of which no
  run can compute the rows. A row is known by its table and its origin, the order
  or the line it is made for, and makes the same row in any batch (`BatchRows`).
  `SeedKeys`: keys are one to one in the origins of a table; lines are numbered in
  stretches of the same length, which do not overlap (`LaidOut`), and refunds by the
  refunds so far, which grow at each of them whatever batch it is in
  (`RefundsCounted`). The batches share out the orders (`OrderBatch`), so they have
  no key in common. `SeedReferences`, `FixturesKept`, `BatchKept`: a reference is to a
  fixture, or to an earlier table of the same batch. Hence `SeedCopied`, for every
  profile. `SeedValidated`, for every ample one, compares each sum and count of the
  gates with the sum or count of the origins, along a bijection of origins and rows
  (`AllOnce`, `ItemsOfOrder`, `LinesOfRefund`), and finds order 4 without a customer,
  test order 2, and for each refund (order 20 has one) more joined rows than lines
  (`JoinAmplified`). That renaming its items leaves a sum alone (`SumRenamed`) is an
  induction on subsets, stated without an operator parameter (`SubsetInduction`). The
  bounds of `ProfilesAssumption` are needed: with fewer orders or one line the gate
  on the join refuses the data.
- *Metadata sync.* `RowsExclusive`: the write of a row waits for whoever has
  written it. `SnapshotInv`: while the source has its first table, a run past its
  first write holds that row and a run before it has written nothing, so nobody
  else commits rows while a run is `Ahead`; what it has read of a row stays true,
  every collected row is written as live or already live (`Kept`), every other is
  deleted or already not live (`Gone`), and its commit leaves exactly what it
  collected. `RetryInv` counts what can still fail: `Tries(j)` is the message not
  yet sent, those in the broker, and the runs that hold one. Together with the
  failures counted, or with the count a run has read, they never exceed
  MAX_RETRIES and the crashes and redeliveries; and only these make one more. `InlineInv`: a job
  is run by its request or by tasks, never by both. `ServedInv` is `RetryNotLost`
  with the runs that carry a message instead of any run, which is what a step
  preserves.
- *Lists.* `Ranks`: in a finite linear order the ranks are the numbers from 1 to
  the size of the set, one each (a pigeonhole on cardinalities). `Selections`: hence
  a selection by index keeps exactly the chosen items, each once and in order. All
  facts about rankings, fusion and trimming rest on these two.
- *Join paths.* `SearchOk` is the invariant of the loop: the queue holds walks from
  the source, in order of length and of two neighbouring lengths at most; no walk is
  in the queue or found twice, or is one of the queue with an edge more; a table that
  was seen is marked with the length of a walk to it, the length also of those of the
  queue that end there; and every shortest walk to the target was found or begins
  with one of the queue (`Complete`). Dropping a path to a table met at a
  lower depth is sound because a walk through it could be shortened (`Splice`). An
  empty queue leaves exactly the shortest walks (`EndOk`). The search ends
  (`SearchEnds`) since paths only grow, up to one edge more than the depth. That the
  recursive function of the model exists and unfolds as written is proved too
  (`TailRecursion`: CHOOSE has a witness), with an induction on sets of numbers
  (`SetInduction`) in the place of the library's.
- *Completion.* `Completed`: unless a pair is missing, each has a walk between its
  tables, and nothing else was added. The tables reached from the first stop growing
  after as many steps as there are (`Standstill`), so that no join among them leads
  out (`ReachClosed`); hence every walk with one end among them stays there. In the
  workbench a document is kept once, and names differ where documents do
  (`InspectedOk`), so that a table outside the graph always lacks a path to another.
- *Retrieval.* `SearchInv` types the rankings as lists without repetition. A fused
  score is a sum of `1 / (60 + rank)`, so a document ahead in both rankings, or in
  the only one that has it, scores more and cannot come later (`TakenInOrder`); a
  result that `TopK` has not cut short has every document found. When a route has
  FAILED the result is the ranking of the other (`AloneFair`); one that timed out is
  an empty ranking in the fusion. The reranker adds the
  keys beyond its limit, and the trimming passes over them, so they are kept
  whatever the scores.
- *Contexts.* `Trimmed`: the examples go first, as few as needed, then the ordinary
  columns, as many as a division says; the result is within the budget or has
  nothing left to drop, and nothing dropped could be put back.
- *Linkers.* The semantic linker asks the registry first and falls back on the map
  of the schema linker, so that a mention it cannot link is one the schema linker
  cannot link either.
- *Time ranges.* The first rule that applies is the least index of a set. Numbers
  of days grow with dates, and every number is that of one day (`DayOfNumber`, whose
  year is the least that does not end before it); the day after the last of a month
  is the first of the next, also across years (`EveOfMonth`). `RangeFits` goes
  through the rules.

Only model-checked: everything about liveness (`PublishEnds`, `RunEnds`,
`BuildAnswered`, `RequestAnswered`, `RunsEnd`), since fairness and ENABLED are
outside what these proofs can express. Every invariant and every action property
that a passing run checks is a theorem.

## 6 Abstractions

- Contents of a metric definition and rows of a result
  are values of small sets; documents are the revision of the row they were built
  from. Prompts, SQL texts and messages are left out.
- A metric is seeded one per request, and the models start after the first seed:
  every metric DRAFT. `deprecate`, `re_validate`, `add_draft` and `seed` have no
  endpoint; they run in a session of their caller, who commits.
- Annotations assign columns that a sync does not, and SQLAlchemy writes only the
  attributes that were assigned, so that annotations have no part in `MetadataSync`.
- A table of the catalog stands for its columns, which are written under the lock
  of its row. The collection of the source is one step; in the code it is several
  statements outside a transaction.
- The control database does not fail in `IndexBuild`, and in `MetadataSync` it
  fails only by conflict or deadlock (and crashes, which roll back). In
  `QueryService` every commit may fail, with or without having taken effect.
- Redis gives a message at least once while its task is unacknowledged; the
  visibility timeout is `Redeliver`, in `IndexBuild` and `MetadataSync`.
- Error codes are grouped: `llm_error` and `sql_invalid` stand for those that
  nothing distinguishes; `llm_timeout`, the execution codes and `internal_error`
  are kept.
- What a timed-out query has to give back ("releasing": roll back, return the
  connection) is outside the timer and so outside `BudgetKept` and
  `RequestAnswered`, as it is outside `asyncio.timeout` in the code.
- asyncio gives a semaphore in the order of arrival; the model to anybody, which
  allows more behaviours.
- A migration file is its edition, the statements of one are one step (they are
  one transaction), and what fails one is `StopMigrator`. The locks that DDL takes
  against a seed's TRUNCATE are left out: PostgreSQL ends one of two that wait for
  each other, which is `StopMigrator` or `StopSeeder`.
- The larger profile of `business_db` has fewer orders than `dev`, with batches to
  match; every rule that counts orders repeats within it. The proofs are of any
  number of orders.
- A text index may return any ranking: no property depends on what BM25 or an
  embedding finds. Scores matter in value linking alone, and are two there, on
  either side of the threshold.
- Words stand for the Chinese words of the code, one each; a question for the words
  found in it. Matches that come from letters shared by chance are left out,
  except where one word of the tables contains another.
- Tokens are the code's own estimates; of the text of a context only the length of
  its parts counts.

## 7 Not modelled

`PROJECT.json` gives the status of each component.

- Validation of SQL: a pure function of a syntax tree that a library makes; its
  verdict is any choice in `QueryService`.
- Wording of prompts, parsing of model answers, formatting of results: data that
  no property tells apart.
- The classification of the intent type and the limit of a ranking in the router:
  labels on which nothing branches. `check_fan_out`: only tests call it.
- Loading of the glossary and the registry: single SELECTs or a YAML file.
- Evaluation: offline, sequential scripts without shared state.
- Embedding providers: external models; their failure is an action.
- Control-database migrations: Alembic applies them; their unique keys are in the
  modules that rely on them.
- Health probes, trace review, registration of data sources: reads and single
  updates. User interfaces.

## 8 Plan

Done: life cycle with the abstract register, synchronisation, index build, query
service, business database, and the way from a question to a prompt.

Left, in order of what they would add:

1. `Catalog`: `MetadataSync` and `IndexBuild` composed, with the abstract promise
   that a published batch is a snapshot of the catalog or says it is not; columns
   beside tables, and a collection that is torn.
