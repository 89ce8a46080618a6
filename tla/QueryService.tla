------------------------------ MODULE QueryService ------------------------------
(***************************************************************************)
(* Answering a question: the orchestrator that records a request and runs  *)
(* it (server/orchestrator/query.py, server/query/repository.py), the      *)
(* pipeline that generates, validates and executes SQL                     *)
(* (server/orchestrator/pipeline.py, server/generation/v3_pipeline.py) and *)
(* the executor with its semaphore and its lazily created connection pool  *)
(* (server/execution/postgres.py).                                         *)
(*                                                                         *)
(* Requests interleave at their awaits, in one event loop.  Time passes in *)
(* ticks; a timer that has run out fires before the next tick.  A request  *)
(* has its own session and its own record, named by its trace id, which    *)
(* the client may choose.  Status and error code of a record are one value.*)
(***************************************************************************)
EXTENDS Naturals, FiniteSets

CONSTANTS
  Request,         \* submissions
  Trace,           \* trace ids
  NoTrace,         \* a submission that has not been made
  TimeoutMs,       \* query_timeout_ms, in ticks
  StatementMs,     \* query_statement_timeout_ms, in ticks
  MaxRetries,      \* llm_max_retries
  MaxConcurrency,  \* bound on query_max_concurrency
  MaxCrashes       \* bound on crashes of the API process

ASSUME RequestAssumption == IsFiniteSet(Request)
ASSUME TraceAssumption == NoTrace \notin Trace
ASSUME TimeAssumption == TimeoutMs \in Nat \ {0} /\ StatementMs \in Nat \ {0}
ASSUME CountsAssumption ==
  MaxRetries \in Nat /\ MaxConcurrency \in Nat \ {0} /\ MaxCrashes \in Nat

VARIABLES
  record,   \* query_record, by trace id: status and error code as committed
  trace,    \* the trace id of each request
  stage,    \* what each request is waiting for
  attempt,  \* calls of the model that have failed
  left,     \* ticks left on the timer of the request
  spent,    \* ticks since the pipeline started
  outcome,  \* what the pipeline, or the orchestrator, has decided
  lock,     \* _pool_lock: held while the pool is created
  pools,    \* the connection pools that are open
  cached,   \* whether _pool names one of them
  permits,  \* query_max_concurrency as configured
  crashes   \* crashes so far

request == <<trace, stage, attempt, left, spent, outcome>>
executor == <<lock, pools, cached, permits>>
vars == <<record, trace, stage, attempt, left, spent, outcome, lock, pools, cached,
          permits, crashes>>

ErrorCode == {"llm_timeout", "llm_error", "sql_invalid", "execution_timeout",
              "execution_busy", "execution_error", "internal_error"}
Outcome == {"succeeded", "clarification_required", "rejected"} \cup ErrorCode
Permitted == {"pool", "lock", "creating", "acquire", "querying", "releasing"}
Executing == {"semaphore"} \cup (Permitted \ {"releasing"})
Timed == {"generating"} \cup Executing
InFlight == {"create", "scope", "finish", "failing", "broken", "releasing"} \cup Timed
Stage == {"new", "answered", "gone"} \cup InFlight

NoOutcome == "none"
Smaller(a, b) == IF a < b THEN a ELSE b
Larger(a, b) == IF a < b THEN b ELSE a

Goes(i, to) == stage' = [stage EXCEPT ![i] = to]
Decide(i, o) == outcome' = [outcome EXCEPT ![i] = o]
Holders == {i \in Request : stage[i] \in Permitted}

-----------------------------------------------------------------------------
Init ==
  /\ record = [t \in Trace |-> "absent"]
  /\ trace = [i \in Request |-> NoTrace]
  /\ stage = [i \in Request |-> "new"]
  /\ attempt = [i \in Request |-> 0]
  /\ left = [i \in Request |-> 0]
  /\ spent = [i \in Request |-> 0]
  /\ outcome = [i \in Request |-> NoOutcome]
  /\ lock = FALSE
  /\ pools = 0
  /\ cached = FALSE
  /\ permits \in 1..MaxConcurrency
  /\ crashes = 0

(* submit: the record is created, the scope assessed, the record updated,   *)
(* each in a commit of its own.                                             *)

Submit(i, t) ==
  /\ stage[i] = "new"
  /\ trace' = [trace EXCEPT ![i] = t]
  /\ Goes(i, "create")
  /\ UNCHANGED <<record, attempt, left, spent, outcome, executor, crashes>>

\* mutant: the session is usable after the INSERT has failed
CreateRecordRolledBack(i) ==
  /\ stage[i] = "create"
  /\ IF record[trace[i]] = "absent"
     THEN record' = [record EXCEPT ![trace[i]] = "processing"] /\ Goes(i, "scope")
     ELSE UNCHANGED record /\ Goes(i, "failing")
  /\ Decide(i, IF record[trace[i]] = "absent" THEN NoOutcome ELSE "internal_error")
  /\ UNCHANGED <<trace, attempt, left, spent, executor, crashes>>

\* a trace id that is taken breaks the session of the request
CreateRecord(i) ==
  /\ stage[i] = "create"
  /\ IF record[trace[i]] = "absent"
     THEN /\ record' = [record EXCEPT ![trace[i]] = "processing"]
          /\ Goes(i, "scope")
          /\ UNCHANGED outcome
     ELSE UNCHANGED record /\ Goes(i, "broken") /\ Decide(i, "internal_error")
  /\ UNCHANGED <<trace, attempt, left, spent, executor, crashes>>

\* the local variables of the pipeline are gone
Forget(S) ==
  /\ attempt' = [i \in Request |-> IF i \in S THEN 0 ELSE attempt[i]]
  /\ left' = [i \in Request |-> IF i \in S THEN 0 ELSE left[i]]
  /\ spent' = [i \in Request |-> IF i \in S THEN 0 ELSE spent[i]]

Answer(i) ==
  /\ Goes(i, "answered")
  /\ UNCHANGED <<trace, attempt, left, spent, executor, crashes>>

\* assess_scope: an ambiguous metric needs clarification, all else goes on
AssessScope(i) ==
  /\ stage[i] = "scope"
  /\ \/ /\ record' = [record EXCEPT ![trace[i]] = "clarification_required"]
        /\ Decide(i, "clarification_required")
        /\ Answer(i)
     \/ /\ Goes(i, "generating")
        /\ left' = [left EXCEPT ![i] = TimeoutMs]
        /\ UNCHANGED <<record, trace, attempt, spent, outcome, executor, crashes>>

-----------------------------------------------------------------------------
(* V3SQLGenerationPipeline.run and SafeQueryPipeline.run.                    *)

Conclude(i, o) ==
  /\ Goes(i, "finish")
  /\ Decide(i, o)
  /\ Forget({i})
  /\ UNCHANGED <<record, trace, executor, crashes>>

\* mutant: the execution has the whole budget again
ExecuteValidatedAnew(i) ==
  /\ stage[i] = "generating"
  /\ left' = [left EXCEPT ![i] = Smaller(TimeoutMs, StatementMs)]
  /\ Goes(i, "semaphore")
  /\ UNCHANGED <<record, trace, attempt, spent, outcome, executor, crashes>>

\* the model has answered with SQL that is valid: what remains of the budget,
\* and one tick at least, is the execution's
ExecuteValidated(i) ==
  /\ stage[i] = "generating"
  /\ left' = [left EXCEPT ![i] = Smaller(Larger(1, @), StatementMs)]
  /\ Goes(i, "semaphore")
  /\ UNCHANGED <<record, trace, attempt, spent, outcome, executor, crashes>>

\* the model has asked back, or refused, or its SQL is not valid
GenerationEnds(i) ==
  /\ stage[i] = "generating"
  /\ \E o \in {"clarification_required", "rejected", "sql_invalid"} : Conclude(i, o)

\* mutant: one retry too many
AttemptFailsOffByOne(i, retryable) ==
  /\ stage[i] = "generating"
  /\ IF retryable /\ attempt[i] <= MaxRetries
     THEN /\ attempt' = [attempt EXCEPT ![i] = @ + 1]
          /\ UNCHANGED <<record, trace, stage, left, spent, outcome, executor, crashes>>
     ELSE \E o \in {"llm_timeout", "llm_error"} : Conclude(i, o)

\* the provider fails or its own timer runs out, or the answer cannot be parsed
AttemptFails(i, retryable) ==
  /\ stage[i] = "generating"
  /\ IF retryable /\ attempt[i] < MaxRetries
     THEN /\ attempt' = [attempt EXCEPT ![i] = @ + 1]
          /\ UNCHANGED <<record, trace, stage, left, spent, outcome, executor, crashes>>
     ELSE \E o \in {"llm_timeout", "llm_error"} : Conclude(i, o)

GenerationTimeout(i) ==
  /\ stage[i] = "generating" /\ left[i] = 0
  /\ Conclude(i, "llm_timeout")

-----------------------------------------------------------------------------
(* AsyncpgReadOnlyExecutor.execute and _get_pool.                           *)

ExecutorStep(i, to) ==
  /\ Goes(i, to)
  /\ UNCHANGED <<record, trace, attempt, left, spent, outcome, crashes>>

TakePermit(i) ==
  /\ stage[i] = "semaphore"
  /\ Cardinality(Holders) < permits
  /\ ExecutorStep(i, "pool")
  /\ UNCHANGED executor

GetPool(i) ==
  /\ stage[i] = "pool"
  /\ ExecutorStep(i, IF cached THEN "acquire" ELSE "lock")
  /\ UNCHANGED executor

\* mutant: the lock is taken, and the pool created, without looking again
LockPoolBlindly(i) ==
  /\ stage[i] = "lock" /\ ~lock
  /\ ExecutorStep(i, "creating")
  /\ lock' = TRUE
  /\ UNCHANGED <<pools, cached, permits>>

\* whoever gets the lock looks again whether the pool has been created
LockPool(i) ==
  /\ stage[i] = "lock" /\ ~lock
  /\ ExecutorStep(i, IF cached THEN "acquire" ELSE "creating")
  /\ lock' = ~cached
  /\ UNCHANGED <<pools, cached, permits>>

CreatePool(i) ==
  /\ stage[i] = "creating"
  /\ ExecutorStep(i, "acquire")
  /\ lock' = FALSE
  /\ pools' = pools + 1
  /\ cached' = TRUE
  /\ UNCHANGED permits

AcquireConnection(i) ==
  /\ stage[i] = "acquire"
  /\ ExecutorStep(i, "querying")
  /\ UNCHANGED executor

\* out of the executor, or to what its context managers have to undo first
LeaveExecutor(i, to, o) ==
  /\ Goes(i, to)
  /\ Decide(i, o)
  /\ lock' = (lock /\ stage[i] # "creating")
  /\ Forget({i})
  /\ UNCHANGED <<record, trace, pools, cached, permits, crashes>>

\* the rows are there, the connection and the permit given back
QueryReturns(i) == stage[i] = "querying" /\ LeaveExecutor(i, "finish", "succeeded")

\* the server fails, cancels the statement or has too many connections, or the
\* driver raises an error of its own
DatabaseError(i) ==
  /\ stage[i] \in {"creating", "acquire", "querying"}
  /\ \/ \E o \in {"execution_timeout", "execution_busy", "execution_error"} :
          LeaveExecutor(i, "finish", o)
     \/ LeaveExecutor(i, "failing", "internal_error")

\* mutant: the timer covers the query alone
ExecutionTimeoutOfQuery(i) ==
  /\ stage[i] = "querying" /\ left[i] = 0
  /\ LeaveExecutor(i, "releasing", "execution_timeout")

\* who has nothing of the business database leaves at once
ExecutionTimeout(i) ==
  /\ stage[i] \in Executing /\ left[i] = 0
  /\ LeaveExecutor(i, IF stage[i] \in {"semaphore", "pool", "lock"}
                      THEN "finish" ELSE "releasing", "execution_timeout")

\* the transaction is rolled back and the connection given back, and then the
\* permit: exchanges with the business database that no timer covers
Release(i) ==
  /\ stage[i] = "releasing"
  /\ ExecutorStep(i, "finish")
  /\ UNCHANGED executor

-----------------------------------------------------------------------------
(* The end of submit.                                                       *)

\* mutant: the answer does not wait for the record
RecordOutcomeUnsaved(i) ==
  /\ stage[i] = "finish"
  /\ Answer(i)
  /\ UNCHANGED <<record, outcome>>

RecordOutcome(i) ==
  /\ stage[i] = "finish"
  /\ record' = [record EXCEPT ![trace[i]] = outcome[i]]
  /\ Answer(i)
  /\ UNCHANGED outcome

\* an exception outside the repository: the failure can still be recorded
UnexpectedError(i) ==
  /\ stage[i] \in {"scope", "generating"}
  /\ Goes(i, "failing")
  /\ Decide(i, "internal_error")
  /\ Forget({i})
  /\ UNCHANGED <<record, trace, executor, crashes>>

RecordFailure(i) ==
  /\ stage[i] = "failing"
  /\ record' = [record EXCEPT ![trace[i]] = outcome[i]]
  /\ Answer(i)
  /\ UNCHANGED outcome

\* what the commit a request is waiting for writes
Committing(i) ==
  CASE stage[i] = "create" -> "processing"
    [] stage[i] = "scope"  -> "clarification_required"
    [] OTHER               -> outcome[i]

\* the control database fails a commit, or the reply is lost: the session is
\* broken
RepositoryError(i) ==
  /\ stage[i] \in {"create", "scope", "finish", "failing"}
  /\ \/ UNCHANGED record
     \/ /\ stage[i] = "create" => record[trace[i]] = "absent"
        /\ record' = [record EXCEPT ![trace[i]] = Committing(i)]
  /\ Goes(i, "broken")
  /\ Decide(i, "internal_error")
  /\ UNCHANGED <<trace, attempt, left, spent, executor, crashes>>

\* the second error is swallowed, and the failure answered
AnswerUnrecorded(i) ==
  /\ stage[i] = "broken"
  /\ Answer(i)
  /\ UNCHANGED <<record, outcome>>

(* The API process dies: its requests and its pool are gone.                *)
Crash ==
  /\ crashes < MaxCrashes
  /\ crashes' = crashes + 1
  /\ LET lost == {i \in Request : stage[i] \in InFlight} IN
       /\ stage' = [i \in Request |-> IF i \in lost THEN "gone" ELSE stage[i]]
       /\ outcome' = [i \in Request |-> IF i \in lost THEN NoOutcome ELSE outcome[i]]
       /\ Forget(lost)
  /\ lock' = FALSE /\ pools' = 0 /\ cached' = FALSE
  /\ UNCHANGED <<record, trace, permits>>

Tick ==
  LET timed == {i \in Request : stage[i] \in Timed} IN
  /\ timed # {}
  /\ \A i \in timed : left[i] > 0
  /\ left' = [i \in Request |-> IF i \in timed THEN left[i] - 1 ELSE left[i]]
  /\ spent' = [i \in Request |-> IF i \in timed THEN spent[i] + 1 ELSE spent[i]]
  /\ UNCHANGED <<record, trace, stage, attempt, outcome, executor, crashes>>

OrchestratorStep(i) ==
  \/ CreateRecord(i) \/ AssessScope(i) \/ RecordOutcome(i) \/ RecordFailure(i)
  \/ AnswerUnrecorded(i)

GenerationReturns(i) ==
  \/ ExecuteValidated(i) \/ GenerationEnds(i)
  \/ \E retryable \in BOOLEAN : AttemptFails(i, retryable)

QueryProceeds(i) ==
  \/ CreatePool(i) \/ AcquireConnection(i) \/ QueryReturns(i) \/ DatabaseError(i)
  \/ Release(i)

ExecutorRuns(i) == TakePermit(i) \/ GetPool(i) \/ LockPool(i)

Timeout(i) == GenerationTimeout(i) \/ ExecutionTimeout(i)

Next ==
  \/ \E i \in Request :
       \/ \E t \in Trace : Submit(i, t)
       \/ OrchestratorStep(i) \/ GenerationReturns(i) \/ QueryProceeds(i)
       \/ ExecutorRuns(i) \/ Timeout(i) \/ UnexpectedError(i) \/ RepositoryError(i)
  \/ Crash
  \/ Tick

Spec == Init /\ [][Next]_vars

(* The event loop runs what can run, time passes, and a commit of the        *)
(* control database ends, in success or not.  Nothing says that the model or *)
(* the business database ever answers.                                       *)
Fairness ==
  /\ WF_vars(Tick)
  /\ \A i \in Request : /\ WF_vars(OrchestratorStep(i))
                        /\ WF_vars(ExecutorRuns(i))
                        /\ WF_vars(Timeout(i))

FairSpec == Spec /\ Fairness
-----------------------------------------------------------------------------
(* Records and requests have the types of their columns and fields.          *)
TypeOK ==
  /\ record \in [Trace -> {"absent", "processing"} \cup Outcome]
  /\ trace \in [Request -> Trace \cup {NoTrace}]
  /\ stage \in [Request -> Stage]
  /\ attempt \in [Request -> 0..MaxRetries]
  /\ left \in [Request -> 0..Larger(TimeoutMs, StatementMs)]
  /\ spent \in [Request -> Nat]
  /\ outcome \in [Request -> Outcome \cup {NoOutcome}]
  /\ lock \in BOOLEAN /\ cached \in BOOLEAN
  /\ pools \in Nat /\ permits \in 1..MaxConcurrency
  /\ crashes \in 0..MaxCrashes

(* The pipeline stays within query_timeout_ms and the one tick that the      *)
(* execution is given at least, however the time was divided between model,  *)
(* retries, semaphore, pool and query.                                       *)
BudgetKept == \A i \in Request : spent[i] <= TimeoutMs + 1

(* There is one pool, whoever comes first and whoever gives up creating it,  *)
(* and no more requests than query_max_concurrency use it.                   *)
OnePool == pools <= 1 /\ Cardinality(Holders) <= permits

(* A record that has an outcome keeps it: a second submission with its trace *)
(* id neither overwrites it nor starts it again.                             *)
RecordFinal ==
  [][\A t \in Trace : record[t] \in Outcome => record'[t] = record[t]]_record

(* What a client is told, other than internal_error, is what it will read.   *)
AnsweredAsRecorded ==
  \A i \in Request : stage[i] = "answered" /\ outcome[i] # "internal_error" =>
    record[trace[i]] = outcome[i]

(* Neither the model nor the business database need ever answer, and others  *)
(* may hold every permit and the lock for ever: a request is answered all    *)
(* the same, unless its time ran out on a connection, which it then waits to *)
(* give back without a timer.  (The docstring, postgres.py:84, has giving    *)
(* back within the budget too: the rollback is inside the timeout's block,   *)
(* but runs after the timeout has fired.)                                    *)
RequestAnswered ==
  \A i \in Request : stage[i] \in InFlight ~> stage[i] \in {"answered", "gone", "releasing"}
=============================================================================
