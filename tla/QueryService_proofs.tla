--------------------------- MODULE QueryService_proofs ---------------------------
(***************************************************************************)
(* Proofs of the safety properties of QueryService, for every number of    *)
(* requests, trace ids and permits and every choice of the timeouts.       *)
(*                                                                         *)
(* The inductive invariant has a part for each resource.  RecordInv: the   *)
(* requests that may still write a record own it, and it is processing.    *)
(* BudgetInv: what has been spent and what is left add up.  PoolInv: the   *)
(* lock guards the creation of the pool.  The parts only share TypeOK.     *)
(***************************************************************************)
EXTENDS QueryService, FiniteSetTheorems, TLAPS

Owning == {"scope", "finish", "failing", "releasing"} \cup Timed

OwnedIsProcessing == \A i \in Request : stage[i] \in Owning => record[trace[i]] = "processing"

OneOwner ==
  \A i, j \in Request :
    stage[i] \in Owning /\ stage[j] \in Owning /\ trace[i] = trace[j] => i = j

Decided ==
  \A i \in Request :
    /\ stage[i] # "new" => trace[i] \in Trace
    /\ stage[i] \in {"failing", "broken"} => outcome[i] = "internal_error"
    /\ stage[i] \in {"finish", "releasing"} => outcome[i] \in Outcome

RecordInv == OwnedIsProcessing /\ OneOwner /\ Decided /\ AnsweredAsRecorded

BudgetInv ==
  \A i \in Request :
    /\ stage[i] = "generating" => spent[i] + left[i] = TimeoutMs
    /\ stage[i] \in Executing => spent[i] + left[i] <= TimeoutMs + 1
    /\ stage[i] \notin Timed => spent[i] = 0

PoolInv ==
  /\ pools = IF cached THEN 1 ELSE 0
  /\ \A i \in Request : stage[i] = "creating" => lock /\ ~cached
  /\ \A i, j \in Request : stage[i] = "creating" /\ stage[j] = "creating" => i = j

PermitInv == Cardinality(Holders) <= permits

IInv == TypeOK /\ RecordInv /\ BudgetInv /\ PoolInv /\ PermitInv
-----------------------------------------------------------------------------
(* Every step keeps the types; what is recorded has been decided before.     *)
LEMMA TypeStep ==
  ASSUME TypeOK, Decided, [Next]_vars
  PROVE  TypeOK'
<1>. USE TimeAssumption, CountsAssumption
    DEF TypeOK, Decided, Stage, Outcome, ErrorCode, NoOutcome, Larger, Smaller,
        InFlight, Timed, Executing, Permitted
<1>1. ASSUME NEW i \in Request, NEW t \in Trace, Submit(i, t) PROVE TypeOK'
  BY <1>1 DEF Submit, Goes, executor
<1>2. ASSUME NEW i \in Request, CreateRecord(i) PROVE TypeOK'
  BY <1>2 DEF CreateRecord, Goes, Decide, executor
<1>3. ASSUME NEW i \in Request, AssessScope(i) PROVE TypeOK'
  BY <1>3 DEF AssessScope, Goes, Decide, Answer, executor
<1>4. ASSUME NEW i \in Request, RecordOutcome(i) PROVE TypeOK'
  <2>1. record' \in [Trace -> {"absent", "processing"} \cup Outcome]
    BY <1>4 DEF RecordOutcome, Answer, Goes, executor
  <2>2. stage' \in [Request -> Stage]
    BY <1>4 DEF RecordOutcome, Answer, Goes, executor
  <2>3. outcome' \in [Request -> Outcome \cup {NoOutcome}]
    BY <1>4 DEF RecordOutcome, Answer, Goes, executor
  <2>4. UNCHANGED <<trace, attempt, left, spent, lock, pools, cached, permits, crashes>>
    BY <1>4 DEF RecordOutcome, Answer, Goes, executor
  <2>. QED
    BY <2>1, <2>2, <2>3, <2>4
<1>5. ASSUME NEW i \in Request, RecordFailure(i) PROVE TypeOK'
  <2>1. record' \in [Trace -> {"absent", "processing"} \cup Outcome]
    BY <1>5 DEF RecordFailure, Answer, Goes, executor
  <2>2. stage' \in [Request -> Stage]
    BY <1>5 DEF RecordFailure, Answer, Goes, executor
  <2>3. outcome' \in [Request -> Outcome \cup {NoOutcome}]
    BY <1>5 DEF RecordFailure, Answer, Goes, executor
  <2>4. UNCHANGED <<trace, attempt, left, spent, lock, pools, cached, permits, crashes>>
    BY <1>5 DEF RecordFailure, Answer, Goes, executor
  <2>. QED
    BY <2>1, <2>2, <2>3, <2>4
<1>6. ASSUME NEW i \in Request, AnswerUnrecorded(i) PROVE TypeOK'
  BY <1>6 DEF AnswerUnrecorded, Answer, Goes, executor
<1>7. ASSUME NEW i \in Request, ExecuteValidated(i) PROVE TypeOK'
  BY <1>7 DEF ExecuteValidated, Goes, executor
<1>8. ASSUME NEW i \in Request, GenerationEnds(i) PROVE TypeOK'
  BY <1>8 DEF GenerationEnds, Conclude, Forget, Goes, Decide, executor
<1>9. ASSUME NEW i \in Request, CreatePool(i) PROVE TypeOK'
  <2>1. pools' \in Nat
    BY <1>9 DEF CreatePool, ExecutorStep, Goes, executor
  <2>2. lock' \in BOOLEAN
    BY <1>9 DEF CreatePool, ExecutorStep, Goes, executor
  <2>3. cached' \in BOOLEAN
    BY <1>9 DEF CreatePool, ExecutorStep, Goes, executor
  <2>4. stage' \in [Request -> Stage]
    BY <1>9 DEF CreatePool, ExecutorStep, Goes, executor
  <2>5. UNCHANGED <<record, trace, attempt, left, spent, outcome, permits, crashes>>
    BY <1>9 DEF CreatePool, ExecutorStep, Goes, executor
  <2>. QED
    BY <2>1, <2>2, <2>3, <2>4, <2>5
<1>10. ASSUME NEW i \in Request, AcquireConnection(i) PROVE TypeOK'
  BY <1>10 DEF AcquireConnection, ExecutorStep, Goes, executor
<1>11. ASSUME NEW i \in Request, QueryReturns(i) PROVE TypeOK'
  BY <1>11 DEF QueryReturns, LeaveExecutor, Forget, Goes, Decide, executor
<1>12. ASSUME NEW i \in Request, DatabaseError(i) PROVE TypeOK'
  <2>1. left' \in [Request -> 0..Larger(TimeoutMs, StatementMs)]
    BY <1>12 DEF DatabaseError, LeaveExecutor, Forget, Goes, Decide, executor
  <2>2. attempt' \in [Request -> 0..MaxRetries]
    BY <1>12 DEF DatabaseError, LeaveExecutor, Forget, Goes, Decide, executor
  <2>3. spent' \in [Request -> Nat]
    BY <1>12 DEF DatabaseError, LeaveExecutor, Forget, Goes, Decide, executor
  <2>4. stage' \in [Request -> Stage]
    BY <1>12 DEF DatabaseError, LeaveExecutor, Forget, Goes, Decide, executor
  <2>5. outcome' \in [Request -> Outcome \cup {NoOutcome}]
    BY <1>12 DEF DatabaseError, LeaveExecutor, Forget, Goes, Decide, executor
  <2>6. lock' \in BOOLEAN
    BY <1>12 DEF DatabaseError, LeaveExecutor, Forget, Goes, Decide, executor
  <2>7. UNCHANGED <<record, trace, pools, cached, permits, crashes>>
    BY <1>12 DEF DatabaseError, LeaveExecutor, Forget, Goes, Decide, executor
  <2>. QED
    BY <2>1, <2>2, <2>3, <2>4, <2>5, <2>6, <2>7
<1>13. ASSUME NEW i \in Request, TakePermit(i) PROVE TypeOK'
  BY <1>13 DEF TakePermit, ExecutorStep, Goes, executor
<1>14. ASSUME NEW i \in Request, GetPool(i) PROVE TypeOK'
  BY <1>14 DEF GetPool, ExecutorStep, Goes, executor
<1>15. ASSUME NEW i \in Request, LockPool(i) PROVE TypeOK'
  BY <1>15 DEF LockPool, ExecutorStep, Goes, executor
<1>16. ASSUME NEW i \in Request, Release(i) PROVE TypeOK'
  BY <1>16 DEF Release, ExecutorStep, Goes, executor
<1>17. ASSUME NEW i \in Request, GenerationTimeout(i) PROVE TypeOK'
  BY <1>17 DEF GenerationTimeout, Conclude, Forget, Goes, Decide, executor
<1>18. ASSUME NEW i \in Request, ExecutionTimeout(i) PROVE TypeOK'
  BY <1>18 DEF ExecutionTimeout, LeaveExecutor, Forget, Goes, Decide, executor
<1>19. ASSUME NEW i \in Request, UnexpectedError(i) PROVE TypeOK'
  BY <1>19 DEF UnexpectedError, Forget, Goes, Decide, executor
<1>20. ASSUME NEW i \in Request, RepositoryError(i) PROVE TypeOK'
  <2>1. record' \in [Trace -> {"absent", "processing"} \cup Outcome]
    BY <1>20 DEF RepositoryError, Goes, Decide, Committing, executor
  <2>2. stage' \in [Request -> Stage]
    BY <1>20 DEF RepositoryError, Goes, Decide, Committing, executor
  <2>3. outcome' \in [Request -> Outcome \cup {NoOutcome}]
    BY <1>20 DEF RepositoryError, Goes, Decide, Committing, executor
  <2>4. UNCHANGED <<trace, attempt, left, spent, lock, pools, cached, permits, crashes>>
    BY <1>20 DEF RepositoryError, Goes, Decide, Committing, executor
  <2>. QED
    BY <2>1, <2>2, <2>3, <2>4
<1>21. ASSUME NEW i \in Request, NEW retryable \in BOOLEAN, AttemptFails(i, retryable)
       PROVE TypeOK'
  BY <1>21 DEF AttemptFails, Conclude, Forget, Goes, Decide, executor
<1>22. CASE Crash
  <2>1. left' \in [Request -> 0..Larger(TimeoutMs, StatementMs)]
    BY <1>22 DEF Crash, Forget
  <2>2. attempt' \in [Request -> 0..MaxRetries]
    BY <1>22 DEF Crash, Forget
  <2>3. spent' \in [Request -> Nat]
    BY <1>22 DEF Crash, Forget
  <2>4. stage' \in [Request -> Stage]
    BY <1>22 DEF Crash, Forget
  <2>5. outcome' \in [Request -> Outcome \cup {NoOutcome}]
    BY <1>22 DEF Crash, Forget
  <2>6. crashes' \in 0..MaxCrashes
    BY <1>22 DEF Crash, Forget
  <2>7. pools' \in Nat /\ lock' \in BOOLEAN /\ cached' \in BOOLEAN
    BY <1>22 DEF Crash, Forget
  <2>8. UNCHANGED <<record, trace, permits>>
    BY <1>22 DEF Crash, Forget
  <2>. QED
    BY <2>1, <2>2, <2>3, <2>4, <2>5, <2>6, <2>7, <2>8
<1>23. CASE Tick
  BY <1>23 DEF Tick, executor
<1>24. CASE UNCHANGED vars
  BY <1>24 DEF vars
<1>. QED
  BY <1>1, <1>2, <1>3, <1>4, <1>5, <1>6, <1>7, <1>8, <1>9, <1>10, <1>11, <1>12,
     <1>13, <1>14, <1>15, <1>16, <1>17, <1>18, <1>19, <1>20, <1>21, <1>22, <1>23, <1>24
     DEF Next, OrchestratorStep, GenerationReturns, QueryProceeds, ExecutorRuns, Timeout

(* A request writes only a record it owns, and owns it only if it created    *)
(* it; a session that is broken writes nothing more.                         *)
LEMMA RecordStep ==
  ASSUME TypeOK, RecordInv, [Next]_vars
  PROVE  RecordInv'
<1>. USE TraceAssumption
    DEF TypeOK, RecordInv, OwnedIsProcessing, OneOwner, Decided, AnsweredAsRecorded,
        Owning, Outcome, ErrorCode, NoOutcome, InFlight, Timed, Executing, Permitted
<1>1. ASSUME NEW i \in Request, NEW t \in Trace, Submit(i, t) PROVE RecordInv'
  BY <1>1 DEF Submit, Goes, executor
<1>2. ASSUME NEW i \in Request, CreateRecord(i) PROVE RecordInv'
  <2>1. OwnedIsProcessing'
    BY <1>2 DEF CreateRecord, Goes, Decide, executor
  <2>2. OneOwner'
    BY <1>2 DEF CreateRecord, Goes, Decide, executor
  <2>3. Decided'
    BY <1>2 DEF CreateRecord, Goes, Decide, executor
  <2>4. AnsweredAsRecorded'
    BY <1>2 DEF CreateRecord, Goes, Decide, executor
  <2>. QED
    BY <2>1, <2>2, <2>3, <2>4
<1>3. ASSUME NEW i \in Request, AssessScope(i) PROVE RecordInv'
  <2>1. OwnedIsProcessing'
    BY <1>3 DEF AssessScope, Goes, Decide, Answer, executor
  <2>2. OneOwner'
    BY <1>3 DEF AssessScope, Goes, Decide, Answer, executor
  <2>3. Decided'
    BY <1>3 DEF AssessScope, Goes, Decide, Answer, executor
  <2>4. AnsweredAsRecorded'
    BY <1>3 DEF AssessScope, Goes, Decide, Answer, executor
  <2>. QED
    BY <2>1, <2>2, <2>3, <2>4
<1>4. ASSUME NEW i \in Request, RecordOutcome(i) PROVE RecordInv'
  <2>1. OwnedIsProcessing'
    BY <1>4 DEF RecordOutcome, Answer, Goes, executor
  <2>2. OneOwner'
    BY <1>4 DEF RecordOutcome, Answer, Goes, executor
  <2>3. Decided'
    BY <1>4 DEF RecordOutcome, Answer, Goes, executor
  <2>4. AnsweredAsRecorded'
    BY <1>4 DEF RecordOutcome, Answer, Goes, executor
  <2>. QED
    BY <2>1, <2>2, <2>3, <2>4
<1>5. ASSUME NEW i \in Request, RecordFailure(i) PROVE RecordInv'
  <2>1. OwnedIsProcessing'
    BY <1>5 DEF RecordFailure, Answer, Goes, executor
  <2>2. OneOwner'
    BY <1>5 DEF RecordFailure, Answer, Goes, executor
  <2>3. Decided'
    BY <1>5 DEF RecordFailure, Answer, Goes, executor
  <2>4. AnsweredAsRecorded'
    BY <1>5 DEF RecordFailure, Answer, Goes, executor
  <2>. QED
    BY <2>1, <2>2, <2>3, <2>4
<1>6. ASSUME NEW i \in Request, AnswerUnrecorded(i) PROVE RecordInv'
  BY <1>6 DEF AnswerUnrecorded, Answer, Goes, executor
<1>7. ASSUME NEW i \in Request, ExecuteValidated(i) PROVE RecordInv'
  BY <1>7 DEF ExecuteValidated, Goes, executor
<1>8. ASSUME NEW i \in Request, GenerationEnds(i) PROVE RecordInv'
  BY <1>8 DEF GenerationEnds, Conclude, Forget, Goes, Decide, executor
<1>9. ASSUME NEW i \in Request, CreatePool(i) PROVE RecordInv'
  BY <1>9 DEF CreatePool, ExecutorStep, Goes, executor
<1>10. ASSUME NEW i \in Request, AcquireConnection(i) PROVE RecordInv'
  BY <1>10 DEF AcquireConnection, ExecutorStep, Goes, executor
<1>11. ASSUME NEW i \in Request, QueryReturns(i) PROVE RecordInv'
  BY <1>11 DEF QueryReturns, LeaveExecutor, Forget, Goes, Decide, executor
<1>12. ASSUME NEW i \in Request, DatabaseError(i) PROVE RecordInv'
  BY <1>12 DEF DatabaseError, LeaveExecutor, Forget, Goes, Decide, executor
<1>13. ASSUME NEW i \in Request, TakePermit(i) PROVE RecordInv'
  BY <1>13 DEF TakePermit, ExecutorStep, Goes, executor
<1>14. ASSUME NEW i \in Request, GetPool(i) PROVE RecordInv'
  BY <1>14 DEF GetPool, ExecutorStep, Goes, executor
<1>15. ASSUME NEW i \in Request, LockPool(i) PROVE RecordInv'
  BY <1>15 DEF LockPool, ExecutorStep, Goes, executor
<1>16. ASSUME NEW i \in Request, Release(i) PROVE RecordInv'
  BY <1>16 DEF Release, ExecutorStep, Goes, executor
<1>17. ASSUME NEW i \in Request, GenerationTimeout(i) PROVE RecordInv'
  BY <1>17 DEF GenerationTimeout, Conclude, Forget, Goes, Decide, executor
<1>18. ASSUME NEW i \in Request, ExecutionTimeout(i) PROVE RecordInv'
  BY <1>18 DEF ExecutionTimeout, LeaveExecutor, Forget, Goes, Decide, executor
<1>19. ASSUME NEW i \in Request, UnexpectedError(i) PROVE RecordInv'
  BY <1>19 DEF UnexpectedError, Forget, Goes, Decide, executor
<1>20. ASSUME NEW i \in Request, RepositoryError(i) PROVE RecordInv'
  <2>1. OwnedIsProcessing'
    BY <1>20 DEF RepositoryError, Goes, Decide, Committing, executor
  <2>2. OneOwner'
    BY <1>20 DEF RepositoryError, Goes, Decide, Committing, executor
  <2>3. Decided'
    BY <1>20 DEF RepositoryError, Goes, Decide, Committing, executor
  <2>4. AnsweredAsRecorded'
    BY <1>20 DEF RepositoryError, Goes, Decide, Committing, executor
  <2>. QED
    BY <2>1, <2>2, <2>3, <2>4
<1>21. ASSUME NEW i \in Request, NEW retryable \in BOOLEAN, AttemptFails(i, retryable)
       PROVE RecordInv'
  BY <1>21 DEF AttemptFails, Conclude, Forget, Goes, Decide, executor
<1>22. CASE Crash
  BY <1>22 DEF Crash, Forget
<1>23. CASE Tick
  BY <1>23 DEF Tick, executor
<1>24. CASE UNCHANGED vars
  BY <1>24 DEF vars
<1>. QED
  BY <1>1, <1>2, <1>3, <1>4, <1>5, <1>6, <1>7, <1>8, <1>9, <1>10, <1>11, <1>12,
     <1>13, <1>14, <1>15, <1>16, <1>17, <1>18, <1>19, <1>20, <1>21, <1>22, <1>23, <1>24
     DEF Next, OrchestratorStep, GenerationReturns, QueryProceeds, ExecutorRuns, Timeout

(* Time passes for all timed requests alike, and no timer goes below zero.   *)
LEMMA BudgetStep ==
  ASSUME TypeOK, BudgetInv, [Next]_vars
  PROVE  BudgetInv'
<1>. USE TimeAssumption, CountsAssumption
    DEF TypeOK, BudgetInv, Larger, Smaller, InFlight, Timed, Executing, Permitted
<1>1. ASSUME NEW i \in Request, NEW t \in Trace, Submit(i, t) PROVE BudgetInv'
  BY <1>1 DEF Submit, Goes, executor
<1>2. ASSUME NEW i \in Request, CreateRecord(i) PROVE BudgetInv'
  BY <1>2 DEF CreateRecord, Goes, Decide, executor
<1>3. ASSUME NEW i \in Request, AssessScope(i) PROVE BudgetInv'
  BY <1>3 DEF AssessScope, Goes, Decide, Answer, executor
<1>4. ASSUME NEW i \in Request, RecordOutcome(i) PROVE BudgetInv'
  BY <1>4 DEF RecordOutcome, Answer, Goes, executor
<1>5. ASSUME NEW i \in Request, RecordFailure(i) PROVE BudgetInv'
  BY <1>5 DEF RecordFailure, Answer, Goes, executor
<1>6. ASSUME NEW i \in Request, AnswerUnrecorded(i) PROVE BudgetInv'
  BY <1>6 DEF AnswerUnrecorded, Answer, Goes, executor
<1>7. ASSUME NEW i \in Request, ExecuteValidated(i) PROVE BudgetInv'
  BY <1>7 DEF ExecuteValidated, Goes, executor
<1>8. ASSUME NEW i \in Request, GenerationEnds(i) PROVE BudgetInv'
  BY <1>8 DEF GenerationEnds, Conclude, Forget, Goes, Decide, executor
<1>9. ASSUME NEW i \in Request, CreatePool(i) PROVE BudgetInv'
  BY <1>9 DEF CreatePool, ExecutorStep, Goes, executor
<1>10. ASSUME NEW i \in Request, AcquireConnection(i) PROVE BudgetInv'
  BY <1>10 DEF AcquireConnection, ExecutorStep, Goes, executor
<1>11. ASSUME NEW i \in Request, QueryReturns(i) PROVE BudgetInv'
  BY <1>11 DEF QueryReturns, LeaveExecutor, Forget, Goes, Decide, executor
<1>12. ASSUME NEW i \in Request, DatabaseError(i) PROVE BudgetInv'
  BY <1>12 DEF DatabaseError, LeaveExecutor, Forget, Goes, Decide, executor
<1>13. ASSUME NEW i \in Request, TakePermit(i) PROVE BudgetInv'
  BY <1>13 DEF TakePermit, ExecutorStep, Goes, executor
<1>14. ASSUME NEW i \in Request, GetPool(i) PROVE BudgetInv'
  BY <1>14 DEF GetPool, ExecutorStep, Goes, executor
<1>15. ASSUME NEW i \in Request, LockPool(i) PROVE BudgetInv'
  BY <1>15 DEF LockPool, ExecutorStep, Goes, executor
<1>16. ASSUME NEW i \in Request, Release(i) PROVE BudgetInv'
  BY <1>16 DEF Release, ExecutorStep, Goes, executor
<1>17. ASSUME NEW i \in Request, GenerationTimeout(i) PROVE BudgetInv'
  BY <1>17 DEF GenerationTimeout, Conclude, Forget, Goes, Decide, executor
<1>18. ASSUME NEW i \in Request, ExecutionTimeout(i) PROVE BudgetInv'
  BY <1>18 DEF ExecutionTimeout, LeaveExecutor, Forget, Goes, Decide, executor
<1>19. ASSUME NEW i \in Request, UnexpectedError(i) PROVE BudgetInv'
  BY <1>19 DEF UnexpectedError, Forget, Goes, Decide, executor
<1>20. ASSUME NEW i \in Request, RepositoryError(i) PROVE BudgetInv'
  BY <1>20 DEF RepositoryError, Goes, Decide, Committing, executor
<1>21. ASSUME NEW i \in Request, NEW retryable \in BOOLEAN, AttemptFails(i, retryable)
       PROVE BudgetInv'
  BY <1>21 DEF AttemptFails, Conclude, Forget, Goes, Decide, executor
<1>22. CASE Crash
  BY <1>22 DEF Crash, Forget
<1>23. CASE Tick
  BY <1>23 DEF Tick, executor
<1>24. CASE UNCHANGED vars
  BY <1>24 DEF vars
<1>. QED
  BY <1>1, <1>2, <1>3, <1>4, <1>5, <1>6, <1>7, <1>8, <1>9, <1>10, <1>11, <1>12,
     <1>13, <1>14, <1>15, <1>16, <1>17, <1>18, <1>19, <1>20, <1>21, <1>22, <1>23, <1>24
     DEF Next, OrchestratorStep, GenerationReturns, QueryProceeds, ExecutorRuns, Timeout

(* Whoever creates the pool holds the lock, and has seen that there is none. *)
LEMMA PoolStep ==
  ASSUME TypeOK, PoolInv, [Next]_vars
  PROVE  PoolInv'
<1>. USE DEF TypeOK, PoolInv, InFlight, Timed, Executing, Permitted
<1>1. ASSUME NEW i \in Request, NEW t \in Trace, Submit(i, t) PROVE PoolInv'
  BY <1>1 DEF Submit, Goes, executor
<1>2. ASSUME NEW i \in Request, CreateRecord(i) PROVE PoolInv'
  BY <1>2 DEF CreateRecord, Goes, Decide, executor
<1>3. ASSUME NEW i \in Request, AssessScope(i) PROVE PoolInv'
  BY <1>3 DEF AssessScope, Goes, Decide, Answer, executor
<1>4. ASSUME NEW i \in Request, RecordOutcome(i) PROVE PoolInv'
  BY <1>4 DEF RecordOutcome, Answer, Goes, executor
<1>5. ASSUME NEW i \in Request, RecordFailure(i) PROVE PoolInv'
  BY <1>5 DEF RecordFailure, Answer, Goes, executor
<1>6. ASSUME NEW i \in Request, AnswerUnrecorded(i) PROVE PoolInv'
  BY <1>6 DEF AnswerUnrecorded, Answer, Goes, executor
<1>7. ASSUME NEW i \in Request, ExecuteValidated(i) PROVE PoolInv'
  BY <1>7 DEF ExecuteValidated, Goes, executor
<1>8. ASSUME NEW i \in Request, GenerationEnds(i) PROVE PoolInv'
  BY <1>8 DEF GenerationEnds, Conclude, Forget, Goes, Decide, executor
<1>9. ASSUME NEW i \in Request, CreatePool(i) PROVE PoolInv'
  BY <1>9 DEF CreatePool, ExecutorStep, Goes, executor
<1>10. ASSUME NEW i \in Request, AcquireConnection(i) PROVE PoolInv'
  BY <1>10 DEF AcquireConnection, ExecutorStep, Goes, executor
<1>11. ASSUME NEW i \in Request, QueryReturns(i) PROVE PoolInv'
  BY <1>11 DEF QueryReturns, LeaveExecutor, Forget, Goes, Decide, executor
<1>12. ASSUME NEW i \in Request, DatabaseError(i) PROVE PoolInv'
  BY <1>12 DEF DatabaseError, LeaveExecutor, Forget, Goes, Decide, executor
<1>13. ASSUME NEW i \in Request, TakePermit(i) PROVE PoolInv'
  BY <1>13 DEF TakePermit, ExecutorStep, Goes, executor
<1>14. ASSUME NEW i \in Request, GetPool(i) PROVE PoolInv'
  BY <1>14 DEF GetPool, ExecutorStep, Goes, executor
<1>15. ASSUME NEW i \in Request, LockPool(i) PROVE PoolInv'
  BY <1>15 DEF LockPool, ExecutorStep, Goes, executor
<1>16. ASSUME NEW i \in Request, Release(i) PROVE PoolInv'
  BY <1>16 DEF Release, ExecutorStep, Goes, executor
<1>17. ASSUME NEW i \in Request, GenerationTimeout(i) PROVE PoolInv'
  BY <1>17 DEF GenerationTimeout, Conclude, Forget, Goes, Decide, executor
<1>18. ASSUME NEW i \in Request, ExecutionTimeout(i) PROVE PoolInv'
  BY <1>18 DEF ExecutionTimeout, LeaveExecutor, Forget, Goes, Decide, executor
<1>19. ASSUME NEW i \in Request, UnexpectedError(i) PROVE PoolInv'
  BY <1>19 DEF UnexpectedError, Forget, Goes, Decide, executor
<1>20. ASSUME NEW i \in Request, RepositoryError(i) PROVE PoolInv'
  BY <1>20 DEF RepositoryError, Goes, Decide, Committing, executor
<1>21. ASSUME NEW i \in Request, NEW retryable \in BOOLEAN, AttemptFails(i, retryable)
       PROVE PoolInv'
  BY <1>21 DEF AttemptFails, Conclude, Forget, Goes, Decide, executor
<1>22. CASE Crash
  BY <1>22 DEF Crash, Forget
<1>23. CASE Tick
  BY <1>23 DEF Tick, executor
<1>24. CASE UNCHANGED vars
  BY <1>24 DEF vars
<1>. QED
  BY <1>1, <1>2, <1>3, <1>4, <1>5, <1>6, <1>7, <1>8, <1>9, <1>10, <1>11, <1>12,
     <1>13, <1>14, <1>15, <1>16, <1>17, <1>18, <1>19, <1>20, <1>21, <1>22, <1>23, <1>24
     DEF Next, OrchestratorStep, GenerationReturns, QueryProceeds, ExecutorRuns, Timeout

(* Only TakePermit adds a request to those that hold a permit, and it has    *)
(* counted them.                                                             *)
LEMMA PermitStep ==
  ASSUME TypeOK, PermitInv, [Next]_vars
  PROVE  PermitInv'
<1>. USE DEF TypeOK, PermitInv
<1>1. Holders \subseteq Request /\ IsFiniteSet(Holders) /\ Cardinality(Holders) \in Nat
  BY RequestAssumption, FS_Subset, FS_CardinalityType DEF Holders
<1>2. permits \in Nat
  BY CountsAssumption
<1>3. ASSUME NEW i \in Request, TakePermit(i) PROVE PermitInv'
  <2>1. Holders' = Holders \cup {i} /\ permits' = permits
    BY <1>3 DEF TakePermit, ExecutorStep, Goes, executor, Holders, Permitted
  <2>2. Cardinality(Holders \cup {i})
          = IF i \in Holders THEN Cardinality(Holders) ELSE Cardinality(Holders) + 1
    BY ONLY <1>1, FS_AddElement
  <2>3. Cardinality(Holders) < permits
    BY <1>3 DEF TakePermit
  <2>. QED
    BY <1>1, <1>2, <2>1, <2>2, <2>3
<1>4. ASSUME Holders' \subseteq Holders, permits' = permits PROVE PermitInv'
  <2>1. IsFiniteSet(Holders') /\ Cardinality(Holders') <= Cardinality(Holders)
    BY ONLY <1>1, <1>4, FS_Subset
  <2>2. Cardinality(Holders') \in Nat
    BY ONLY <2>1, FS_CardinalityType
  <2>. QED
    BY <1>1, <1>2, <1>4, <2>1, <2>2
<1>5. ASSUME NEW i \in Request, NEW t \in Trace, Submit(i, t)
      PROVE  Holders' \subseteq Holders /\ permits' = permits
  BY <1>5 DEF Submit, Goes, executor, Holders, Permitted
<1>6. ASSUME NEW i \in Request, OrchestratorStep(i)
      PROVE  Holders' \subseteq Holders /\ permits' = permits
  BY <1>6 DEF OrchestratorStep, CreateRecord, AssessScope, RecordOutcome, RecordFailure,
              AnswerUnrecorded, Answer, Goes, executor, Holders, Permitted
<1>7. ASSUME NEW i \in Request, GenerationReturns(i)
      PROVE  Holders' \subseteq Holders /\ permits' = permits
  BY <1>7 DEF GenerationReturns, ExecuteValidated, GenerationEnds, AttemptFails, Conclude,
              Goes, executor, Holders, Permitted
<1>8. ASSUME NEW i \in Request, QueryProceeds(i)
      PROVE  Holders' \subseteq Holders /\ permits' = permits
  BY <1>8 DEF QueryProceeds, CreatePool, AcquireConnection, QueryReturns, DatabaseError,
              Release, LeaveExecutor, ExecutorStep, Goes, executor, Holders, Permitted
<1>9. ASSUME NEW i \in Request, GetPool(i) \/ LockPool(i)
      PROVE  Holders' \subseteq Holders /\ permits' = permits
  BY <1>9 DEF GetPool, LockPool, ExecutorStep, Goes, executor, Holders, Permitted
<1>10. ASSUME NEW i \in Request, Timeout(i)
       PROVE  Holders' \subseteq Holders /\ permits' = permits
  BY <1>10 DEF Timeout, GenerationTimeout, ExecutionTimeout, Conclude, LeaveExecutor, Goes,
               executor, Executing, Holders, Permitted
<1>11. ASSUME NEW i \in Request, UnexpectedError(i) \/ RepositoryError(i)
       PROVE  Holders' \subseteq Holders /\ permits' = permits
  BY <1>11 DEF UnexpectedError, RepositoryError, Goes, executor, Holders, Permitted
<1>12. ASSUME Crash \/ Tick \/ UNCHANGED vars
       PROVE  Holders' \subseteq Holders /\ permits' = permits
  BY <1>12 DEF Crash, Tick, vars, executor, Holders, Permitted
<1>. QED
  BY <1>3, <1>4, <1>5, <1>6, <1>7, <1>8, <1>9, <1>10, <1>11, <1>12
     DEF Next, ExecutorRuns

(* The initial states satisfy the invariant.                                 *)
LEMMA Initially == Init => IInv
<1>. SUFFICES ASSUME Init PROVE IInv
  OBVIOUS
<1>1. TypeOK
  <2>1. Larger(TimeoutMs, StatementMs) \in Nat
    BY TimeAssumption DEF Larger
  <2>2. /\ left \in [Request -> 0..Larger(TimeoutMs, StatementMs)]
        /\ attempt \in [Request -> 0..MaxRetries]
        /\ spent \in [Request -> Nat]
        /\ crashes \in 0..MaxCrashes
    BY <2>1, CountsAssumption DEF Init
  <2>3. /\ record \in [Trace -> {"absent", "processing"} \cup Outcome]
        /\ trace \in [Request -> Trace \cup {NoTrace}]
        /\ stage \in [Request -> Stage]
        /\ outcome \in [Request -> Outcome \cup {NoOutcome}]
    BY DEF Init, Stage
  <2>. QED
    BY <2>2, <2>3 DEF Init, TypeOK
<1>2. RecordInv /\ BudgetInv /\ PoolInv
  BY DEF Init, RecordInv, OwnedIsProcessing, OneOwner, Decided, AnsweredAsRecorded,
         BudgetInv, PoolInv, Owning, Timed, Executing, Permitted
<1>3. Holders = {}
  BY DEF Init, Holders, Permitted
<1>4. PermitInv
  BY <1>3, FS_EmptySet, CountsAssumption DEF PermitInv, Init
<1>. QED
  BY <1>1, <1>2, <1>4 DEF IInv

-----------------------------------------------------------------------------
(* The inductive invariant: types, ownership of records, budgets, the pool   *)
(* and its lock, permits.                                                    *)
THEOREM Invariance == Spec => []IInv
<1>1. IInv /\ [Next]_vars => IInv'
  BY TypeStep, RecordStep, BudgetStep, PoolStep, PermitStep DEF IInv, RecordInv
<1>. QED
  BY Initially, <1>1, PTL DEF Spec

(* Records and requests always have the types of their columns and fields.   *)
THEOREM TypeCorrect == Spec => []TypeOK
<1>1. IInv => TypeOK
  BY DEF IInv
<1>. QED
  BY Invariance, <1>1, PTL

(* What a client is told is what it will read, for any number of             *)
(* submissions with any trace ids and any failures of the control database.  *)
THEOREM AnswersRecorded == Spec => []AnsweredAsRecorded
<1>1. IInv => AnsweredAsRecorded
  BY DEF IInv, RecordInv
<1>. QED
  BY Invariance, <1>1, PTL

(* Generation and execution stay within query_timeout_ms and one tick.       *)
THEOREM WithinBudget == Spec => []BudgetKept
<1>1. ASSUME IInv, NEW i \in Request PROVE spent[i] <= TimeoutMs + 1
  <2>1. left[i] \in Nat /\ spent[i] \in Nat /\ TimeoutMs \in Nat
    BY <1>1, TimeAssumption DEF IInv, TypeOK, Larger
  <2>. QED
    BY <1>1, <2>1 DEF IInv, BudgetInv, Timed
<1>2. IInv => BudgetKept
  BY <1>1 DEF BudgetKept
<1>. QED
  BY Invariance, <1>2, PTL

(* One pool is open, and the permits bound the requests that use it.         *)
THEOREM PoolUnique == Spec => []OnePool
<1>1. IInv => OnePool
  BY DEF IInv, PoolInv, PermitInv, OnePool
<1>. QED
  BY Invariance, <1>1, PTL

(* No step changes a record that has an outcome: whoever writes owns the     *)
(* record, and a record that is owned is processing.                         *)
THEOREM RecordsFinal == Spec => RecordFinal
<1>1. ASSUME IInv, [Next]_vars, NEW t \in Trace, record[t] \in Outcome
      PROVE  record'[t] = record[t]
  <2>. USE <1>1 DEF IInv, TypeOK, RecordInv, OwnedIsProcessing, Decided, Owning, Outcome, ErrorCode
  <2>1. ASSUME NEW i \in Request, CreateRecord(i) PROVE record'[t] = record[t]
    BY <2>1 DEF CreateRecord
  <2>2. ASSUME NEW i \in Request, AssessScope(i) PROVE record'[t] = record[t]
    BY <2>2 DEF AssessScope
  <2>3. ASSUME NEW i \in Request, RecordOutcome(i) \/ RecordFailure(i)
        PROVE  record'[t] = record[t]
    BY <2>3 DEF RecordOutcome, RecordFailure
  <2>4. ASSUME NEW i \in Request, RepositoryError(i) PROVE record'[t] = record[t]
    BY <2>4 DEF RepositoryError, Committing
  <2>5. ASSUME NEW i \in Request,
               (\E u \in Trace : Submit(i, u)) \/ AnswerUnrecorded(i) \/ GenerationReturns(i)
                 \/ QueryProceeds(i) \/ ExecutorRuns(i) \/ Timeout(i) \/ UnexpectedError(i)
        PROVE  record'[t] = record[t]
    BY <2>5 DEF Submit, AnswerUnrecorded, GenerationReturns, ExecuteValidated, GenerationEnds,
                AttemptFails, Conclude, QueryProceeds, CreatePool, AcquireConnection,
                QueryReturns, DatabaseError, LeaveExecutor, ExecutorRuns, TakePermit, GetPool,
                LockPool, Release, ExecutorStep, Timeout, GenerationTimeout, ExecutionTimeout,
                UnexpectedError
  <2>6. ASSUME Crash \/ Tick \/ UNCHANGED vars PROVE record'[t] = record[t]
    BY <2>6 DEF Crash, Tick, vars
  <2>. QED
    BY <2>1, <2>2, <2>3, <2>4, <2>5, <2>6 DEF Next, OrchestratorStep
<1>2. IInv /\ [Next]_vars =>
        [\A t \in Trace : record[t] \in Outcome => record'[t] = record[t]]_record
  BY <1>1
<1>. QED
  BY Invariance, <1>2, PTL DEF Spec, RecordFinal
=============================================================================
