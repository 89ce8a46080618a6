------------------------- MODULE MetadataSync_proofs -------------------------
(***************************************************************************)
(* Proofs of the safety properties of MetadataSync, for any number of      *)
(* jobs, runs, tables, crashes, redeliveries and changes.                  *)
(*                                                                         *)
(* While the source has its first table, the row of that table is the lock *)
(* of the catalog: a run that has written it has every later look-up for   *)
(* itself, and one that has not has written nothing.  Retries are bounded  *)
(* by counting what can still fail: a message to be sent, the messages in  *)
(* the broker, and the runs that hold one.                                 *)
(***************************************************************************)
EXTENDS MetadataSync, FiniteSetTheorems, TLAPS

\* no two transactions have written one row
RowsExclusive ==
  \A r, s \in Slot, t \in Table : Holds(r, t) /\ Holds(s, t) => r = s

\* what a run x knows of the tables it has collected, and of the others
Untouched(x) == \A t \in Table : x.wrote[t] = "no"
Kept(x, t) == x.wrote[t] = "live" \/ (x.wrote[t] = "touch" /\ row[t] = "live")
Gone(x, t) == x.wrote[t] = "deleted" \/ (x.wrote[t] = "no" /\ row[t] # "live")

Upserting(x) == x.at \in {"lookup", "write"}
\* the first table is written
Ahead(x) == x.at = "flush" \/ (Upserting(x) /\ 1 \notin x.todo)

RunInv(x) ==
  /\ x.at \in {"loaded", "running"} => Untouched(x)
  /\ Upserting(x) =>
       /\ x.todo \subseteq x.snapshot /\ 1 \in x.snapshot
       /\ 1 \in x.todo => Untouched(x) /\ x.todo = x.snapshot
       /\ \A t \in Table \ x.snapshot : x.wrote[t] = "no"
  /\ x.at = "write" /\ x.read = "live" => \A t \in Table : IsFirst(t, x.todo) => row[t] = "live"
  /\ x.at = "flush" =>
       /\ x.todo \cap x.snapshot = {} /\ 1 \in x.snapshot
       /\ \A t \in Table \ x.snapshot : t \notin x.todo => Gone(x, t)
       /\ \A t \in x.todo : x.wrote[t] = "no"
  /\ Ahead(x) => x.wrote[1] # "no" /\ \A t \in x.snapshot \ x.todo : Kept(x, t)

SnapshotInv ==
  ~lapsed =>
    /\ 1 \in source
    /\ Live = applied
    /\ \A r \in Slot : run[r] # Idle => RunInv(run[r])

\* what can still fail and count: a message not yet sent, those in the broker,
\* and the runs that have one to acknowledge or to send again
Unsent(j) == IF request[j] \in {"none", "flushed"} THEN 1 ELSE 0
Active(x) == x.at \in {"loaded"} \cup Running
Carrying(x, j) ==
  /\ x # Idle /\ x.job = j /\ ~x.inline
  /\ Active(x) \/ (x.at = "failed" /\ x.count + 1 < MaxRetries)
Carries(j) == {r \in Slot : Carrying(run[r], j)}
Tries(j) == Unsent(j) + queue[j] + Cardinality(Carries(j))

RetryOf(j) ==
  /\ Tries(j) <= 1 + faults
  /\ retries[j] + Tries(j) <= MaxRetries + faults
  /\ \A r \in Carries(j) : Active(run[r]) => run[r].count + Tries(j) <= MaxRetries + faults
RetryInv == \A j \in Job : RetryOf(j)

\* a job that is not dispatched has no message and no run of a task
Of(x, j) == x # Idle /\ x.job = j
Undispatched(j) ==
  queue[j] = 0 /\ retries[j] = 0 /\ \A r \in Slot : Of(run[r], j) => run[r].inline

InlineInv ==
  \A j \in Job :
    /\ request[j] \in {"none", "flushed"} => \A r \in Slot : ~Of(run[r], j)
    /\ request[j] \in {"none", "flushed"} => Undispatched(j)
    /\ \A r \in Slot : Of(run[r], j) /\ run[r].inline =>
         Undispatched(j) /\ request[j] = "ended" /\ Active(run[r])

ToRetry(j) ==
  /\ status[j] = "FAILED" /\ error[j] = "source" /\ retries[j] \in 1..(MaxRetries - 1)
  /\ j \notin abandoned
ServedInv == \A j \in Job : ToRetry(j) => queue[j] > 0 \/ Carries(j) # {}

IInv == TypeOK /\ RowsExclusive /\ SnapshotInv /\ RetryInv /\ InlineInv /\ ServedInv

-----------------------------------------------------------------------------
(* What a session reads of a job makes a run. *)
LEMMA NewRunType ==
  ASSUME TypeOK, NEW j \in Job, NEW inline \in BOOLEAN, inline \/ status[j] # "absent"
  PROVE  NewRun(j, inline) \in Run
<1>1. /\ (IF inline THEN "PENDING" ELSE status[j]) \in (JobStatus \ {"absent"}) \cup {"RUNNING"}
      /\ error[j] \in JobError /\ retries[j] \in Nat
  BY DEF TypeOK, JobStatus
<1>2. [t \in Table |-> "no"] \in [Table -> {"no", "touch", "live", "deleted"}]
  OBVIOUS
<1>3. "loaded" \in Stage /\ "none" \in RowStatus /\ {} \in SUBSET Table
  BY DEF Stage, RowStatus
<1>. QED
  BY <1>1, <1>2, <1>3 DEF NewRun, Run

(* A run that ends is gone, or a run with its message to acknowledge. *)
LEMMA EndedType ==
  ASSUME TypeOK, NEW r \in Slot, run[r] # Idle, NEW stage \in {"failed", "finished"}
  PROVE  Ended(r, stage) \in Run \cup {Idle}
<1>1. run[r] \in Run
  BY DEF TypeOK
<1>2. [t \in Table |-> "no"] \in [Table -> {"no", "touch", "live", "deleted"}]
  OBVIOUS
<1>3. /\ stage \in Stage /\ "none" \in RowStatus /\ "none" \in JobError
      /\ "PENDING" \in (JobStatus \ {"absent"}) \cup {"RUNNING"} /\ {} \in SUBSET Table
  BY DEF Stage, RowStatus, JobError, JobStatus
<1>. QED
  BY <1>1, <1>2, <1>3 DEF Ended, Run

(* A row of the catalog is written in one of three ways. *)
LEMMA WrittenType ==
  ASSUME TypeOK, NEW r \in Slot, run[r] # Idle, NEW t \in Table,
         NEW w \in {"touch", "live", "deleted"}, NEW stage \in Stage
  PROVE  Written(r, t, w, stage) \in Run
<1>1. run[r] \in Run
  BY DEF TypeOK
<1>2. /\ run[r].todo \ {t} \in SUBSET Table
      /\ [run[r].wrote EXCEPT ![t] = w] \in [Table -> {"no", "touch", "live", "deleted"}]
  BY <1>1 DEF Run
<1>. QED
  BY <1>1, <1>2 DEF Written, Run

StagesNamed == {"loaded", "running", "lookup", "write", "flush", "failing", "failed", "finished"}

(* A step changes at most one slot, and leaves a run or nothing in it. *)
LEMMA RunTypes ==
  ASSUME TypeOK, NEW r \in Slot, SyncStep(r) \/ CrashWorker(r) \/ \E j \in Job : RunInline(r, j) \/ LoadJob(r, j)
  PROVE  \E x \in Run \cup {Idle} : run' = [run EXCEPT ![r] = x]
<1>1. run[r] # Idle => run[r] \in Run
  BY DEF TypeOK
<1>2. StagesNamed = Stage
  BY DEF StagesNamed, Stage, Running
<1>3. ASSUME NEW stage \in StagesNamed, run[r] # Idle
      PROVE  [run[r] EXCEPT !.at = stage] \in Run
  BY <1>1, <1>2, <1>3 DEF Run
<1>4. CASE CredentialError(r)
  BY <1>4, EndedType DEF CredentialError, At
<1>5. CASE StartSync(r)
  <2>1. [run[r] EXCEPT !.at = "running", !.status = "RUNNING"] \in Run
    BY <1>1, <1>2, <1>5 DEF StartSync, At, Run, StagesNamed
  <2>. QED BY <1>5, <2>1 DEF StartSync, RunStep
<1>6. CASE SourceError(r)
  BY <1>3, <1>6 DEF SourceError, At, RunStep, StagesNamed
<1>7. CASE Collect(r)
  <2>1. [run[r] EXCEPT !.at = "lookup", !.snapshot = source, !.todo = source] \in Run
    BY <1>1, <1>2, <1>7 DEF Collect, At, Run, StagesNamed, TypeOK
  <2>. QED BY <1>7, <2>1 DEF Collect, RunStep
<1>8. CASE LookUp(r)
  <2>1. PICK t \in Table : RunStep(r, [run[r] EXCEPT !.at = "write", !.read = row[t]])
    BY <1>8 DEF LookUp
  <2>2. [run[r] EXCEPT !.at = "write", !.read = row[t]] \in Run
    BY <1>1, <1>2, <1>8 DEF LookUp, At, Run, StagesNamed, TypeOK
  <2>. QED BY <2>1, <2>2 DEF RunStep
<1>9. CASE WriteTable(r)
  <2>1. PICK t \in Table, w \in {"touch", "live"} : RunStep(r, Written(r, t, w, "lookup"))
    BY <1>9 DEF WriteTable
  <2>2. Written(r, t, w, "lookup") \in Run
    BY <1>2, <1>9, WrittenType DEF WriteTable, At, StagesNamed
  <2>. QED BY <2>1, <2>2 DEF RunStep
<1>10. CASE MarkDeleted(r)
  <2>1. Live \ run[r].snapshot \in SUBSET Table
    BY DEF Live
  <2>2. [run[r] EXCEPT !.at = "flush", !.todo = Live \ run[r].snapshot] \in Run
    BY <1>1, <1>2, <1>10, <2>1 DEF MarkDeleted, At, Run, StagesNamed
  <2>. QED BY <1>10, <2>2 DEF MarkDeleted, RunStep
<1>11. CASE FlushDeleted(r)
  <2>1. PICK t \in run[r].todo : RunStep(r, Written(r, t, "deleted", "flush"))
    BY <1>11 DEF FlushDeleted
  <2>2. t \in Table
    BY <1>1, <1>11 DEF FlushDeleted, At, Run
  <2>3. Written(r, t, "deleted", "flush") \in Run
    BY <1>2, <1>11, <2>2, WrittenType DEF FlushDeleted, At, StagesNamed
  <2>. QED BY <2>1, <2>3 DEF RunStep
<1>12. CASE CommitSync(r)
  BY <1>12, EndedType DEF CommitSync, At
<1>13. CASE CommitFailure(r)
  BY <1>13, EndedType DEF CommitFailure, At
<1>14. CASE Retry(r)
  <2>1. [run[r] EXCEPT !.at = "finished", !.count = 0] \in Run
    BY <1>1, <1>2, <1>14 DEF Retry, At, Run, StagesNamed
  <2>2. run' = [run EXCEPT ![r] = [run[r] EXCEPT !.at = "finished", !.count = 0]]
    BY <1>14 DEF Retry, TypeOK
  <2>. QED BY <2>1, <2>2
<1>15. CASE Acknowledge(r) \/ Conflict(r) \/ Deadlock(r) \/ CrashWorker(r)
  BY <1>15 DEF Acknowledge, Conflict, Deadlock, CrashWorker, Break, RunStep
<1>16. ASSUME NEW j \in Job, RunInline(r, j)
       PROVE  \E x \in Run \cup {Idle} : run' = [run EXCEPT ![r] = x]
  BY <1>16, NewRunType DEF RunInline
<1>17. ASSUME NEW j \in Job, LoadJob(r, j)
       PROVE  \E x \in Run \cup {Idle} : run' = [run EXCEPT ![r] = x]
  <2>1. CASE status[j] = "absent"
    <3>1. run' = [run EXCEPT ![r] = run[r]]
      BY <1>17, <2>1 DEF LoadJob, TypeOK
    <3>. QED BY <3>1, <1>17 DEF LoadJob
  <2>2. CASE status[j] # "absent"
    BY <1>17, <2>2, NewRunType DEF LoadJob
  <2>. QED BY <2>1, <2>2
<1>. QED
  BY <1>4, <1>5, <1>6, <1>7, <1>8, <1>9, <1>10, <1>11, <1>12, <1>13, <1>14, <1>15, <1>16, <1>17
  DEF SyncStep

LEMMA InitType == Init => TypeOK
<1>. SUFFICES ASSUME Init PROVE TypeOK
  OBVIOUS
<1>1. row \in [Table -> RowStatus]
  BY DEF Init, RowStatus
<1>2. source \subseteq Table /\ applied \subseteq Table /\ abandoned \subseteq Job
  BY DEF Init, Live
<1>3. /\ status \in [Job -> JobStatus]
      /\ error \in [Job -> JobError] /\ request \in [Job -> RequestStage]
  BY DEF Init, JobStatus, JobError, RequestStage
<1>4. /\ retries \in [Job -> Nat] /\ queue \in [Job -> Nat] /\ run \in [Slot -> Run \cup {Idle}]
      /\ faults \in 0..MaxFaults /\ changes \in 0..MaxChanges
  BY CountsAssumption DEF Init
<1>5. lapsed \in BOOLEAN
  BY DEF Init
<1>. QED
  BY <1>1, <1>2, <1>3, <1>4, <1>5 DEF TypeOK

(* The step of a run keeps the types of the catalog and of the jobs. *)
LEMMA SyncTypes ==
  ASSUME TypeOK, NEW r \in Slot, SyncStep(r) \/ CrashWorker(r)
  PROVE  TypeOK'
<1>1. run' \in [Slot -> Run \cup {Idle}]
  BY RunTypes DEF TypeOK
<1>2. run[r] # Idle => run[r].job \in Job /\ run[r].snapshot \in SUBSET Table /\ run[r].count \in Nat
                       /\ run[r].wrote \in [Table -> {"no", "touch", "live", "deleted"}]
  BY DEF TypeOK, Run
<1>3. "FAILED" \in JobStatus /\ "SUCCEEDED" \in JobStatus /\ "source" \in JobError /\ "credential" \in JobError
  BY DEF JobStatus, JobError
<1>4. CASE CredentialError(r)
  BY <1>1, <1>2, <1>3, <1>4 DEF TypeOK, CredentialError, At, WriteError, world
<1>5. CASE CommitSync(r)
  <2>1. row' \in [Table -> RowStatus]
    BY <1>2, <1>5 DEF TypeOK, CommitSync, At, RowStatus
  <2>. QED
    BY <1>1, <1>2, <1>3, <1>5, <2>1 DEF TypeOK, CommitSync, At, world
<1>6. CASE CommitFailure(r)
  BY <1>1, <1>2, <1>3, <1>6 DEF TypeOK, CommitFailure, At, WriteError, world
<1>7. CASE Retry(r)
  BY <1>1, <1>2, <1>7 DEF TypeOK, Retry, At, catalog, jobs, world
<1>8. CASE Conflict(r) \/ Deadlock(r)
  <2>1. run[r] # Idle
    BY <1>8 DEF Conflict, Deadlock, At, Holds
  <2>. QED
    BY <1>1, <1>2, <1>8, <2>1 DEF TypeOK, Conflict, Deadlock, Break, jobs, world
<1>9. CASE CrashWorker(r)
  <2>1. faults' \in 0..MaxFaults
    BY <1>9, CountsAssumption DEF TypeOK, CrashWorker
  <2>. QED
    BY <1>1, <1>2, <1>9, <2>1 DEF TypeOK, CrashWorker, catalog, jobs
<1>10. ASSUME UNCHANGED <<catalog, jobs, world, request, queue>>
       PROVE  TypeOK'
  BY <1>1, <1>10 DEF TypeOK, catalog, jobs, world
<1>. QED
  BY <1>4, <1>5, <1>6, <1>7, <1>8, <1>9, <1>10
  DEF SyncStep, StartSync, SourceError, Collect, LookUp, WriteTable, MarkDeleted, FlushDeleted,
      Acknowledge, RunStep

LEMMA NextType == TypeOK /\ [Next]_vars => TypeOK'
<1>. SUFFICES ASSUME TypeOK, [Next]_vars PROVE TypeOK'
  OBVIOUS
<1>. USE CountsAssumption
<1>1. \A stage \in {"flushed", "dispatched", "ended"} : stage \in RequestStage
  BY DEF RequestStage
<1>2. ASSUME NEW j \in Job, FlushJob(j) \/ Dispatch(j) \/ CrashRequest(j)
      PROVE  TypeOK'
  <2>1. faults' \in 0..MaxFaults
    BY <1>2 DEF TypeOK, FlushJob, Dispatch, CrashRequest, world
  <2>. QED
    BY <1>1, <1>2, <2>1 DEF TypeOK, FlushJob, Dispatch, CrashRequest, catalog, jobs, world
<1>3. ASSUME NEW j \in Job, CommitJob(j)
      PROVE  TypeOK'
  BY <1>1, <1>3 DEF TypeOK, CommitJob, catalog, world, JobStatus
<1>4. ASSUME NEW j \in Job, NEW r \in Slot, RunInline(r, j)
      PROVE  TypeOK'
  <2>1. run' \in [Slot -> Run \cup {Idle}]
    BY <1>4, RunTypes DEF TypeOK
  <2>. QED
    BY <1>1, <1>4, <2>1 DEF TypeOK, RunInline, catalog, jobs, world
<1>5. ASSUME NEW j \in Job, NEW r \in Slot, LoadJob(r, j)
      PROVE  TypeOK'
  <2>1. run' \in [Slot -> Run \cup {Idle}]
    BY <1>5, RunTypes DEF TypeOK
  <2>2. queue' \in [Job -> Nat]
    BY <1>5 DEF TypeOK, LoadJob
  <2>. QED
    BY <1>5, <2>1, <2>2 DEF TypeOK, LoadJob, catalog, jobs, world
<1>6. ASSUME NEW t \in Table, ChangeSource(t)
      PROVE  TypeOK'
  <2>1. changes' \in 0..MaxChanges
    BY <1>6 DEF TypeOK, ChangeSource
  <2>. QED
    BY <1>6, <2>1 DEF TypeOK, ChangeSource, catalog, jobs
<1>7. ASSUME NEW r \in Slot, Redeliver(r)
      PROVE  TypeOK'
  <2>1. run[r].job \in Job /\ run[r] # Idle
    BY <1>7 DEF TypeOK, Redeliver, Run
  <2>2. queue' \in [Job -> Nat]
    BY <1>7, <2>1 DEF TypeOK, Redeliver
  <2>3. faults' \in 0..MaxFaults
    BY <1>7, CountsAssumption DEF TypeOK, Redeliver
  <2>. QED
    BY <1>7, <2>2, <2>3 DEF TypeOK, Redeliver, catalog, jobs
<1>8. CASE UNCHANGED vars
  BY <1>8 DEF TypeOK, vars
<1>. QED
  BY <1>2, <1>3, <1>4, <1>5, <1>6, <1>7, <1>8, SyncTypes DEF Next

(* Every variable keeps its type, whatever the constants. *)
THEOREM TypeCorrect == Spec => []TypeOK
<1>. QED
  BY InitType, NextType, PTL DEF Spec

-----------------------------------------------------------------------------
(* A row is written by one transaction at a time. *)
LEMMA RowsOfSlot ==
  ASSUME TypeOK, RowsExclusive, NEW r \in Slot, NEW x \in Run \cup {Idle},
         run' = [run EXCEPT ![r] = x],
         \A t \in Table : x # Idle /\ x.wrote[t] # "no" => Holds(r, t) \/ ~Locked(r, t)
  PROVE  RowsExclusive'
<1>. SUFFICES ASSUME NEW p \in Slot, NEW q \in Slot, NEW t \in Table, Holds(p, t)', Holds(q, t)'
              PROVE  p = q
  BY DEF RowsExclusive
<1>1. \A s \in Slot : run'[s] = IF s = r THEN x ELSE run[s]
  BY DEF TypeOK
<1>2. \A s \in Slot \ {r} : Holds(s, t)' => Holds(s, t)
  BY <1>1 DEF Holds
<1>3. Holds(r, t)' => Holds(r, t) \/ ~Locked(r, t)
  BY <1>1 DEF Holds
<1>. QED
  BY <1>2, <1>3 DEF RowsExclusive, Locked

LEMMA RowsStep == TypeOK /\ RowsExclusive /\ [Next]_vars => RowsExclusive'
<1>. SUFFICES ASSUME TypeOK, RowsExclusive, [Next]_vars PROVE RowsExclusive'
  OBVIOUS
<1>1. ASSUME run' = run PROVE RowsExclusive'
  BY <1>1 DEF RowsExclusive, Holds
<1>2. ASSUME NEW r \in Slot, NEW x \in Run \cup {Idle}, run' = [run EXCEPT ![r] = x],
             x # Idle => \A t \in Table : x.wrote[t] = "no" \/ Holds(r, t)
      PROVE  RowsExclusive'
  BY <1>2, RowsOfSlot
<1>3. ASSUME NEW r \in Slot, NEW j \in Job, RunInline(r, j) \/ LoadJob(r, j)
      PROVE  RowsExclusive'
  <2>1. \A inline \in BOOLEAN, t \in Table : NewRun(j, inline).wrote[t] = "no"
    BY DEF NewRun
  <2>2. CASE run' = run
    BY <2>2, <1>1
  <2>3. CASE run' # run
    <3>1. PICK inline \in BOOLEAN : run' = [run EXCEPT ![r] = NewRun(j, inline)]
                                    /\ (inline \/ status[j] # "absent")
      BY <1>3, <2>3 DEF RunInline, LoadJob
    <3>. QED BY <3>1, <2>1, <1>2, NewRunType
  <2>. QED BY <2>2, <2>3
<1>4. ASSUME NEW r \in Slot, SyncStep(r) \/ CrashWorker(r)
      PROVE  RowsExclusive'
  <2>1. PICK x \in Run \cup {Idle} : run' = [run EXCEPT ![r] = x]
    BY <1>4, RunTypes
  <2>2. run'[r] = x
    BY <2>1 DEF TypeOK
  <2>3. run[r] # Idle => run[r] \in Run
    BY DEF TypeOK
  <2>4. CASE WriteTable(r) \/ FlushDeleted(r)
    <3>1. PICK t \in Table, w \in {"touch", "live", "deleted"}, stage \in {"lookup", "flush"} :
            run' = [run EXCEPT ![r] = Written(r, t, w, stage)] /\ ~Locked(r, t)
      BY <2>3, <2>4 DEF WriteTable, FlushDeleted, RunStep, At, Run
    <3>2. x = Written(r, t, w, stage) /\ run[r] # Idle
      BY <2>2, <2>4, <3>1 DEF TypeOK, WriteTable, FlushDeleted, At
    <3>3. \A u \in Table : u # t => x.wrote[u] = run[r].wrote[u]
      BY <2>3, <3>2 DEF Written, Run
    <3>4. \A u \in Table : x.wrote[u] # "no" => Holds(r, u) \/ ~Locked(r, u)
      <4>1. \A u \in Table \ {t} : x.wrote[u] # "no" => Holds(r, u)
        BY <3>2, <3>3 DEF Holds
      <4>. QED BY <3>1, <4>1
    <3>. QED BY <2>1, <3>4, RowsOfSlot
  <2>5. CASE ~(WriteTable(r) \/ FlushDeleted(r))
    <3>1. x = Idle \/ x.wrote = [t \in Table |-> "no"] \/ (run[r] # Idle /\ x.wrote = run[r].wrote)
      <4>1. \A stage \in {"failed", "finished"} :
              Ended(r, stage) = Idle \/ (run[r] \in Run => Ended(r, stage).wrote = [t \in Table |-> "no"])
        BY DEF Ended, Run
      <4>2. CASE CredentialError(r) \/ CommitSync(r) \/ CommitFailure(r)
        BY <2>2, <2>3, <4>1, <4>2 DEF CredentialError, CommitSync, CommitFailure, At, TypeOK
      <4>3. CASE Retry(r)
        <5>1. x = [run[r] EXCEPT !.at = "finished", !.count = 0]
          BY <2>2, <4>3 DEF Retry, TypeOK
        <5>. QED BY <2>3, <4>3, <5>1 DEF Retry, At, Run
      <4>4. CASE StartSync(r) \/ SourceError(r)
        <5>1. \/ x = [run[r] EXCEPT !.at = "running", !.status = "RUNNING"]
              \/ x = [run[r] EXCEPT !.at = "failing"]
          BY <2>2, <4>4 DEF StartSync, SourceError, RunStep, TypeOK
        <5>. QED BY <2>3, <4>4, <5>1 DEF StartSync, SourceError, At, Run
      <4>5. CASE Collect(r) \/ MarkDeleted(r)
        <5>1. PICK s, u : x = [run[r] EXCEPT !.at = "lookup", !.snapshot = s, !.todo = u]
                          \/ x = [run[r] EXCEPT !.at = "flush", !.todo = u]
          BY <2>2, <4>5 DEF Collect, MarkDeleted, RunStep, TypeOK
        <5>. QED BY <2>3, <4>5, <5>1 DEF Collect, MarkDeleted, At, Run
      <4>7. CASE LookUp(r)
        <5>1. PICK s : x = [run[r] EXCEPT !.at = "write", !.read = s]
          BY <2>2, <4>7 DEF LookUp, RunStep, TypeOK
        <5>. QED BY <2>3, <4>7, <5>1 DEF LookUp, At, Run
      <4>6. CASE Acknowledge(r) \/ Conflict(r) \/ Deadlock(r) \/ CrashWorker(r)
        BY <2>2, <4>6 DEF Acknowledge, Conflict, Deadlock, CrashWorker, Break, RunStep, TypeOK
      <4>. QED BY <1>4, <2>5, <4>2, <4>3, <4>4, <4>5, <4>6, <4>7 DEF SyncStep
    <3>. QED BY <2>1, <3>1, <1>2 DEF Holds
  <2>. QED BY <2>4, <2>5
<1>5. ASSUME UNCHANGED run PROVE RowsExclusive'
  BY <1>1, <1>5
<1>. QED
  BY <1>3, <1>4, <1>5
  DEF Next, vars, FlushJob, Dispatch, CommitJob, CrashRequest, ChangeSource, Redeliver

(* Two runs never have uncommitted writes of one row. *)
THEOREM RowLocks == Spec => []RowsExclusive
<1>1. Init => RowsExclusive
  BY DEF Init, RowsExclusive, Holds
<1>. QED
  BY <1>1, InitType, NextType, RowsStep, PTL DEF Spec

-----------------------------------------------------------------------------
(* The rows of the catalog stay; one slot changes, to a run that knows them. *)
LEMMA SameRows ==
  ASSUME TypeOK, SnapshotInv, ~lapsed, row' = row, applied' = applied, 1 \in source',
         NEW r \in Slot, NEW x \in Run \cup {Idle}, run' = [run EXCEPT ![r] = x],
         x # Idle => RunInv(x)
  PROVE  SnapshotInv'
<1>1. \A s \in Slot : run'[s] = IF s = r THEN x ELSE run[s]
  BY DEF TypeOK
<1>2. \A y : RunInv(y)' <=> RunInv(y)
  BY DEF RunInv, Untouched, Kept, Gone, Upserting, Ahead, IsFirst
<1>3. \A s \in Slot : run'[s] # Idle => RunInv(run'[s])
  BY <1>1 DEF SnapshotInv
<1>4. \A s \in Slot : run'[s] # Idle => RunInv(run[s])'
  BY <1>3 DEF RunInv, Untouched, Kept, Gone, Upserting, Ahead, IsFirst
<1>. QED
  BY <1>4 DEF SnapshotInv, Live

(* A run that has not begun, or has ended, knows nothing. *)
LEMMA UnknowingRun ==
  ASSUME NEW x, x.at \in {"loaded", "running"} => Untouched(x),
         x.at \notin {"lookup", "write", "flush"}
  PROVE  RunInv(x)
BY DEF RunInv, Upserting, Ahead

LEMMA EndedKnowsNothing ==
  ASSUME TypeOK, NEW r \in Slot, run[r] # Idle, NEW stage \in {"failed", "finished"}, Ended(r, stage) # Idle
  PROVE  RunInv(Ended(r, stage))
<1>1. run[r] \in Run
  BY DEF TypeOK
<1>2. Ended(r, stage).at = stage
  BY <1>1 DEF Ended, Run
<1>. QED
  BY <1>2, UnknowingRun

(* A lookup, a write or the flush of a deletion keeps what a run knows. *)
LEMMA UpsertKnows ==
  ASSUME TypeOK, SnapshotInv, ~lapsed, NEW r \in Slot, run[r] # Idle,
         NEW x \in Run, run' = [run EXCEPT ![r] = x],
         LookUp(r) \/ WriteTable(r) \/ MarkDeleted(r) \/ FlushDeleted(r)
  PROVE  RunInv(x)
<1>0. run[r] \in Run /\ RunInv(run[r]) /\ x = run'[r]
  BY DEF TypeOK, SnapshotInv
<1>1. \A S \in SUBSET Table : \A t, u \in Table : IsFirst(t, S) /\ IsFirst(u, S) => t = u
  BY CountsAssumption DEF IsFirst, Table
<1>2. \A S \in SUBSET Table : \A t \in Table : IsFirst(t, S) /\ 1 \in S => t = 1
  BY CountsAssumption DEF IsFirst, Table
<1>3. CASE LookUp(r)
  <2>1. PICK t \in Table : IsFirst(t, run[r].todo) /\ x = [run[r] EXCEPT !.at = "write", !.read = row[t]]
    BY <1>0, <1>3 DEF LookUp, RunStep, TypeOK
  <2>2. run[r].at = "lookup" /\ x.at = "write" /\ x.read = row[t] /\ x.todo = run[r].todo
        /\ x.snapshot = run[r].snapshot /\ x.wrote = run[r].wrote
    BY <1>0, <1>3, <2>1 DEF LookUp, At, Run
  <2>3. run[r].todo \in SUBSET Table
    BY <1>0 DEF Run
  <2>4. x.read = "live" => \A u \in Table : IsFirst(u, x.todo) => row[u] = "live"
    BY <1>1, <2>1, <2>2, <2>3
  <2>. QED
    BY <1>0, <2>2, <2>4 DEF RunInv, Untouched, Upserting, Ahead, Kept, Gone
<1>4. CASE WriteTable(r)
  <2>1. PICK t \in Table : /\ IsFirst(t, run[r].todo)
                           /\ x = Written(r, t, IF run[r].read = "live" THEN "touch" ELSE "live", "lookup")
    BY <1>0, <1>4 DEF WriteTable, RunStep, TypeOK
  <2>2. /\ run[r].at = "write" /\ x.at = "lookup" /\ x.todo = run[r].todo \ {t}
        /\ x.snapshot = run[r].snapshot
        /\ \A u \in Table : u # t => x.wrote[u] = run[r].wrote[u]
        /\ x.wrote[t] = IF run[r].read = "live" THEN "touch" ELSE "live"
    BY <1>0, <1>4, <2>1 DEF WriteTable, At, Run, Written
  <2>3. run[r].todo \in SUBSET Table /\ run[r].snapshot \in SUBSET Table /\ t \in run[r].todo
    BY <1>0, <2>1 DEF Run, IsFirst
  <2>4. 1 \in run[r].todo => t = 1
    BY <1>2, <2>1, <2>3
  <2>5. Kept(x, t)
    BY <1>0, <2>1, <2>2 DEF RunInv, Kept
  <2>6. /\ run[r].todo \subseteq run[r].snapshot /\ 1 \in run[r].snapshot
        /\ 1 \in run[r].todo => Untouched(run[r]) /\ run[r].todo = run[r].snapshot
        /\ \A u \in Table \ run[r].snapshot : run[r].wrote[u] = "no"
        /\ 1 \notin run[r].todo => /\ run[r].wrote[1] # "no"
                                   /\ \A u \in run[r].snapshot \ run[r].todo : Kept(run[r], u)
    BY <1>0, <2>2 DEF RunInv, Upserting, Ahead
  <2>7. x.wrote[1] # "no"
    BY <2>2, <2>3, <2>4, <2>6
  <2>8. \A u \in x.snapshot \ x.todo : Kept(x, u)
    <3>. SUFFICES ASSUME NEW u \in x.snapshot \ x.todo, u # t PROVE Kept(x, u)
      BY <2>5
    <3>1. u \in run[r].snapshot \ run[r].todo /\ 1 \notin run[r].todo
      BY <2>2, <2>4, <2>6
    <3>. QED BY <2>2, <2>3, <2>6, <3>1 DEF Kept
  <2>9. 1 \notin x.todo /\ x.todo \subseteq x.snapshot /\ \A u \in Table \ x.snapshot : x.wrote[u] = "no"
    BY <2>2, <2>3, <2>4, <2>6
  <2>. QED
    BY <2>2, <2>6, <2>7, <2>8, <2>9 DEF RunInv, Upserting, Ahead
<1>5. CASE MarkDeleted(r)
  <2>1. x = [run[r] EXCEPT !.at = "flush", !.todo = Live \ run[r].snapshot]
    BY <1>0, <1>5 DEF MarkDeleted, RunStep, TypeOK
  <2>2. /\ run[r].at = "lookup" /\ run[r].todo = {} /\ x.at = "flush" /\ x.todo = Live \ run[r].snapshot
        /\ x.snapshot = run[r].snapshot /\ x.wrote = run[r].wrote
    BY <1>0, <1>5, <2>1 DEF MarkDeleted, At, Run
  <2>3. /\ 1 \in run[r].snapshot /\ run[r].wrote[1] # "no"
        /\ \A u \in Table \ run[r].snapshot : run[r].wrote[u] = "no"
        /\ \A u \in run[r].snapshot : Kept(run[r], u)
    BY <1>0, <2>2 DEF RunInv, Upserting, Ahead
  <2>4. \A u \in Table \ x.snapshot : u \notin x.todo => Gone(x, u)
    BY <2>2, <2>3 DEF Gone, Live
  <2>5. \A u \in x.todo : x.wrote[u] = "no"
    BY <2>2, <2>3 DEF Live
  <2>. QED
    BY <2>2, <2>3, <2>4, <2>5 DEF RunInv, Upserting, Ahead, Kept
<1>6. CASE FlushDeleted(r)
  <2>1. PICK t \in run[r].todo : x = Written(r, t, "deleted", "flush")
    BY <1>0, <1>6 DEF FlushDeleted, RunStep, TypeOK
  <2>2. t \in Table /\ run[r].todo \in SUBSET Table /\ run[r].snapshot \in SUBSET Table
    BY <1>0, <2>1 DEF Run
  <2>3. /\ run[r].at = "flush" /\ x.at = "flush" /\ x.todo = run[r].todo \ {t}
        /\ x.snapshot = run[r].snapshot
        /\ \A u \in Table : u # t => x.wrote[u] = run[r].wrote[u]
        /\ x.wrote[t] = "deleted"
    BY <1>0, <1>6, <2>1, <2>2, ZenonT(60) DEF FlushDeleted, At, Run, Written
  <2>4. /\ run[r].todo \cap run[r].snapshot = {} /\ 1 \in run[r].snapshot
        /\ \A u \in Table \ run[r].snapshot : u \notin run[r].todo => Gone(run[r], u)
        /\ \A u \in run[r].todo : run[r].wrote[u] = "no"
        /\ run[r].wrote[1] # "no"
        /\ \A u \in run[r].snapshot \ run[r].todo : Kept(run[r], u)
    BY <1>0, <2>3 DEF RunInv, Ahead
  <2>5. \A u \in Table \ x.snapshot : u \notin x.todo => Gone(x, u)
    BY <2>2, <2>3, <2>4 DEF Gone
  <2>6. \A u \in x.snapshot \ x.todo : Kept(x, u)
    BY <2>2, <2>3, <2>4 DEF Kept
  <2>7. x.wrote[1] # "no" /\ \A u \in x.todo : x.wrote[u] = "no"
    BY <2>2, <2>3, <2>4
  <2>. QED
    BY <2>3, <2>4, <2>5, <2>6, <2>7 DEF RunInv, Upserting, Ahead
<1>. QED
  BY <1>3, <1>4, <1>5, <1>6

(* The commit of a sync leaves the catalog it has collected: all others have *)
(* written nothing.                                                          *)
LEMMA CommitLeavesSnapshot ==
  ASSUME TypeOK, RowsExclusive, SnapshotInv, ~lapsed, NEW r \in Slot, CommitSync(r)
  PROVE  SnapshotInv'
<1>1. run[r] # Idle /\ run[r] \in Run /\ RunInv(run[r]) /\ run[r].at = "flush" /\ run[r].todo = {}
  BY DEF TypeOK, SnapshotInv, CommitSync, At
<1>2. row' = [t \in Table |->
         IF run[r].wrote[t] \in {"live", "deleted"} THEN run[r].wrote[t] ELSE row[t]]
      /\ applied' = run[r].snapshot /\ run' = [run EXCEPT ![r] = Ended(r, "finished")]
      /\ UNCHANGED <<source, lapsed>>
  BY DEF CommitSync, world
<1>3. /\ 1 \in run[r].snapshot /\ run[r].snapshot \in SUBSET Table /\ run[r].wrote[1] # "no"
      /\ \A t \in run[r].snapshot : Kept(run[r], t)
      /\ \A t \in Table \ run[r].snapshot : Gone(run[r], t)
  BY <1>1 DEF RunInv, Ahead, Run
<1>4. \A t \in Table : row'[t] = "live" <=> t \in run[r].snapshot
  BY <1>2, <1>3 DEF Kept, Gone
<1>5. (Live = applied)'
  BY <1>2, <1>3, <1>4 DEF Live
<1>6. \A s \in Slot : run'[s] = IF s = r THEN Ended(r, "finished") ELSE run[s]
  BY <1>2 DEF TypeOK
<1>7. ASSUME NEW s \in Slot \ {r}, run[s] # Idle PROVE RunInv(run[s])'
  <2>1. run[s].wrote[1] = "no" /\ RunInv(run[s])
    BY <1>1, <1>3, <1>7 DEF RowsExclusive, Holds, SnapshotInv
  <2>2. ~Ahead(run[s]) /\ run[s].at # "flush"
    BY <2>1 DEF RunInv, Ahead
  <2>3. Upserting(run[s]) => 1 \in run[s].todo
    BY <2>2 DEF Ahead
  <2>4. run[s].at = "write" => \A t \in Table : IsFirst(t, run[s].todo) => row'[t] = "live"
    <3>. SUFFICES ASSUME run[s].at = "write", NEW t \in Table, IsFirst(t, run[s].todo)
                  PROVE  row'[t] = "live"
      OBVIOUS
    <3>1. t = 1
      BY <2>3, CountsAssumption DEF Upserting, IsFirst, Table
    <3>. QED BY <3>1, <1>3, <1>4
  <2>5. \A y : Untouched(y)' <=> Untouched(y)
    BY DEF Untouched
  <2>6. \A y, t : IsFirst(t, y.todo)' <=> IsFirst(t, y.todo)
    BY DEF IsFirst
  <2>. QED
    BY <1>6, <2>1, <2>2, <2>4, <2>5 DEF RunInv, Ahead, Upserting, Untouched, IsFirst
<1>8. run'[r] # Idle => RunInv(run[r])'
  <2>1. \A stage \in {"lookup", "write", "flush", "loaded", "running"} : Ended(r, "finished").at # stage \/ Ended(r, "finished") = Idle
    BY <1>1 DEF Ended, Run
  <2>. QED
    BY <1>6, <2>1 DEF RunInv, Ahead, Upserting
<1>9. \A s \in Slot : run'[s] # Idle => RunInv(run[s])'
  BY <1>6, <1>7, <1>8
<1>. QED
  BY <1>2, <1>5, <1>9 DEF SnapshotInv

LEMMA SnapshotStep == TypeOK /\ RowsExclusive /\ SnapshotInv /\ [Next]_vars => SnapshotInv'
<1>. SUFFICES ASSUME TypeOK, RowsExclusive, SnapshotInv, [Next]_vars, ~lapsed' PROVE SnapshotInv'
  BY DEF SnapshotInv
<1>1. CASE UNCHANGED <<row, applied, run, source, lapsed>>
  BY <1>1 DEF SnapshotInv, Live, RunInv, Untouched, Kept, Gone, Upserting, Ahead, IsFirst
<1>2. ASSUME NEW t \in Table, ChangeSource(t) PROVE SnapshotInv'
  BY <1>2, ZenonT(60) DEF SnapshotInv, Live, RunInv, Untouched, Kept, Gone, Upserting, Ahead, IsFirst,
              ChangeSource, catalog
<1>3. ASSUME NEW r \in Slot, NEW j \in Job, RunInline(r, j) \/ LoadJob(r, j) PROVE SnapshotInv'
  <2>1. CASE run' = run
    BY <1>1, <1>3, <2>1 DEF RunInline, LoadJob, catalog, world
  <2>2. CASE run' # run
    <3>1. PICK inline \in BOOLEAN : run' = [run EXCEPT ![r] = NewRun(j, inline)]
                                    /\ (inline \/ status[j] # "absent")
      BY <1>3, <2>2 DEF RunInline, LoadJob
    <3>2. RunInv(NewRun(j, inline))
      BY UnknowingRun DEF NewRun, Untouched
    <3>3. UNCHANGED <<row, applied, lapsed, source>>
      BY <1>3 DEF RunInline, LoadJob, catalog, world
    <3>4. ~lapsed /\ 1 \in source'
      BY <3>3, Zenon DEF SnapshotInv
    <3>. QED BY <3>1, <3>2, <3>3, <3>4, NewRunType, SameRows
  <2>. QED BY <2>1, <2>2
<1>4. ASSUME NEW r \in Slot, SyncStep(r) \/ CrashWorker(r) PROVE SnapshotInv'
  <2>0. UNCHANGED <<lapsed, source>>
    BY <1>4 DEF SyncStep, CredentialError, StartSync, SourceError, Collect, LookUp, WriteTable, MarkDeleted,
      FlushDeleted, CommitSync, CommitFailure, Retry, Acknowledge, Conflict, Deadlock, Break,
      RunStep, CrashWorker, world
  <2>1. ~lapsed /\ 1 \in source'
    BY <2>0, Zenon DEF SnapshotInv
  <2>2. PICK x \in Run \cup {Idle} : run' = [run EXCEPT ![r] = x]
    BY <1>4, RunTypes
  <2>3. run'[r] = x
    BY <2>2 DEF TypeOK
  <2>4. CASE CommitSync(r)
    BY <2>1, <2>4, CommitLeavesSnapshot, SMTT(30)
  <2>5. ASSUME ~CommitSync(r) PROVE row' = row /\ applied' = applied
    BY <1>4, <2>5 DEF SyncStep, CredentialError, StartSync, SourceError, Collect, LookUp, WriteTable, MarkDeleted,
      FlushDeleted, CommitFailure, Retry, Acknowledge, Conflict, Deadlock, Break, RunStep, CrashWorker, catalog
  <2>6. ASSUME x # Idle, ~CommitSync(r) PROVE RunInv(x)
    <3>1. run[r] # Idle => run[r] \in Run /\ RunInv(run[r])
      BY <2>1 DEF TypeOK, SnapshotInv
    <3>2. CASE LookUp(r) \/ WriteTable(r) \/ MarkDeleted(r) \/ FlushDeleted(r)
      <4>1. run[r] # Idle
        BY <3>2 DEF LookUp, WriteTable, MarkDeleted, FlushDeleted, At
      <4>. QED BY <2>1, <2>2, <2>6, <3>2, <4>1, UpsertKnows
    <3>3. CASE CredentialError(r) \/ CommitFailure(r)
      <4>1. PICK stage \in {"failed", "finished"} : x = Ended(r, stage)
        BY <2>3, <3>3 DEF CredentialError, CommitFailure, TypeOK
      <4>2. run[r] # Idle
        BY <3>3 DEF CredentialError, CommitFailure, At
      <4>. QED BY <2>6, <4>1, <4>2, EndedKnowsNothing
    <3>4. CASE Retry(r)
      <4>1. x = [run[r] EXCEPT !.at = "finished", !.count = 0]
        BY <2>3, <3>4 DEF Retry, TypeOK
      <4>2. x.at = "finished"
        BY <3>1, <3>4, <4>1 DEF Retry, At, Run
      <4>. QED BY <4>2, UnknowingRun
    <3>5. CASE StartSync(r)
      <4>1. x = [run[r] EXCEPT !.at = "running", !.status = "RUNNING"]
        BY <2>3, <3>5 DEF StartSync, RunStep, TypeOK
      <4>2. x.at = "running" /\ x.wrote = run[r].wrote /\ Untouched(run[r])
        BY <3>1, <3>5, <4>1 DEF StartSync, At, Run, RunInv
      <4>. QED BY <4>2, UnknowingRun DEF Untouched
    <3>6. CASE SourceError(r)
      <4>1. x = [run[r] EXCEPT !.at = "failing"]
        BY <2>3, <3>6 DEF SourceError, RunStep, TypeOK
      <4>2. x.at = "failing"
        BY <3>1, <3>6, <4>1 DEF SourceError, At, Run
      <4>. QED BY <4>2, UnknowingRun
    <3>7. CASE Collect(r)
      <4>1. x = [run[r] EXCEPT !.at = "lookup", !.snapshot = source, !.todo = source]
        BY <2>3, <3>7 DEF Collect, RunStep, TypeOK
      <4>2. x.at = "lookup" /\ x.wrote = run[r].wrote /\ x.todo = source /\ x.snapshot = source
            /\ Untouched(run[r]) /\ 1 \in source
        BY <2>1, <3>1, <3>7, <4>1 DEF Collect, At, Run, RunInv, SnapshotInv
      <4>. QED BY <4>2 DEF RunInv, Untouched, Upserting, Ahead
    <3>8. CASE Acknowledge(r) \/ Conflict(r) \/ Deadlock(r) \/ CrashWorker(r)
      BY <2>3, <2>6, <3>8 DEF Acknowledge, Conflict, Deadlock, CrashWorker, Break, RunStep, TypeOK
    <3>. QED
      BY <1>4, <2>6, <3>2, <3>3, <3>4, <3>5, <3>6, <3>7, <3>8 DEF SyncStep
  <2>. QED BY <2>1, <2>2, <2>4, <2>5, <2>6, SameRows
<1>. QED
  BY <1>1, <1>2, <1>3, <1>4
  DEF Next, vars, FlushJob, Dispatch, CommitJob, CrashRequest, Redeliver, catalog, world

LEMMA InitSnapshot == Init => SnapshotInv
BY DEF Init, SnapshotInv

(* While the source has its first table, the catalog is one collected        *)
(* snapshot, however many syncs overlap.                                     *)
THEOREM SnapshotCorrect == Spec => []CatalogIsSnapshot
<1>1. Init => RowsExclusive
  BY DEF Init, RowsExclusive, Holds
<1>2. SnapshotInv => CatalogIsSnapshot
  BY DEF SnapshotInv, CatalogIsSnapshot, CatalogIsOneSync
<1>. QED
  BY <1>1, <1>2, InitType, NextType, RowsStep, InitSnapshot, SnapshotStep, PTL DEF Spec

-----------------------------------------------------------------------------
(* What a step of a run means to the count of failures.                      *)
Advances(r) ==
  /\ run[r] # Idle /\ Active(run[r])
  /\ \E x \in Run :
       /\ run' = [run EXCEPT ![r] = x]
       /\ Active(x) /\ x.job = run[r].job /\ x.inline = run[r].inline /\ x.count = run[r].count
  /\ UNCHANGED <<status, error, retries, abandoned, request, queue, faults>>

Stops(r) ==
  /\ run[r] # Idle /\ Active(run[r])
  /\ run' = [run EXCEPT ![r] = Idle] \/ run' = [run EXCEPT ![r] = Ended(r, "finished")]
  /\ run[r].job \in abandoned' \/ status'[run[r].job] = "SUCCEEDED"
  /\ abandoned \subseteq abandoned'
  /\ \A j \in Job : j # run[r].job => status'[j] = status[j] /\ error'[j] = error[j]
  /\ UNCHANGED <<retries, request, queue, faults>>

LEMMA EndedIs ==
  ASSUME TypeOK, NEW r \in Slot, run[r] # Idle, NEW stage \in {"failed", "finished"}
  PROVE  /\ run[r].inline => Ended(r, stage) = Idle
         /\ ~run[r].inline => /\ Ended(r, stage) \in Run /\ Ended(r, stage) # Idle
                              /\ Ended(r, stage).job = run[r].job
                              /\ ~Ended(r, stage).inline /\ Ended(r, stage).inline = run[r].inline
                              /\ Ended(r, stage).at = stage
                              /\ stage = "failed" => Ended(r, stage).count = run[r].count
<1>1. run[r] \in Run
  BY DEF TypeOK
<1>2. CASE run[r].inline
  BY <1>2 DEF Ended
<1>3. CASE ~run[r].inline
  <2>1. Ended(r, stage) = [run[r] EXCEPT !.at = stage, !.status = "PENDING", !.error = "none",
                                 !.count = IF stage = "finished" THEN 0 ELSE @,
                                 !.snapshot = {}, !.read = "none",
                                 !.wrote = [t \in Table |-> "no"]]
    BY <1>3 DEF Ended
  <2>2. /\ Ended(r, stage).job = run[r].job /\ Ended(r, stage).inline = run[r].inline
        /\ Ended(r, stage).at = stage
        /\ stage = "failed" => Ended(r, stage).count = run[r].count
    BY <1>1, <2>1 DEF Run
  <2>3. Ended(r, stage) \in Run
    <3>1. [t \in Table |-> "no"] \in [Table -> {"no", "touch", "live", "deleted"}]
      OBVIOUS
    <3>2. /\ stage \in Stage /\ "none" \in RowStatus /\ "none" \in JobError
          /\ "PENDING" \in (JobStatus \ {"absent"}) \cup {"RUNNING"} /\ {} \in SUBSET Table
      BY DEF Stage, RowStatus, JobError, JobStatus
    <3>. QED BY <1>1, <1>3, <3>1, <3>2 DEF Ended, Run
  <2>. QED BY <1>3, <2>2, <2>3, IdleAssumption
<1>. QED
  BY <1>2, <1>3

LEMMA StepKinds ==
  ASSUME TypeOK, NEW r \in Slot, SyncStep(r) \/ CrashWorker(r)
  PROVE  \/ Advances(r) \/ Stops(r) \/ CommitFailure(r) \/ Retry(r) \/ Acknowledge(r) \/ CrashWorker(r)
<1>1. run[r] # Idle => run[r] \in Run
  BY DEF TypeOK
<1>2. PICK x \in Run \cup {Idle} : run' = [run EXCEPT ![r] = x]
  BY RunTypes
<1>3. run'[r] = x
  BY <1>2 DEF TypeOK
<1>4. CASE \/ StartSync(r) \/ SourceError(r) \/ Collect(r) \/ LookUp(r) \/ WriteTable(r) \/ MarkDeleted(r)
           \/ FlushDeleted(r)
  <2>1. run[r] # Idle /\ Active(run[r])
    BY <1>4 DEF StartSync, SourceError, Collect, LookUp, WriteTable, MarkDeleted, FlushDeleted, At, Active, Running
  <2>2. UNCHANGED <<status, error, retries, abandoned, request, queue, faults>>
    BY <1>4 DEF StartSync, SourceError, Collect, LookUp, WriteTable, MarkDeleted, FlushDeleted, RunStep,
                catalog, jobs, world
  <2>3. /\ x.at \in Running /\ x.job = run[r].job /\ x.inline = run[r].inline /\ x.count = run[r].count
        /\ x \in Run
    <3>1. CASE StartSync(r)
      <4>1. x = [run[r] EXCEPT !.at = "running", !.status = "RUNNING"]
        BY <1>3, <3>1 DEF StartSync, RunStep, TypeOK
      <4>2. "running" \in Stage /\ "RUNNING" \in (JobStatus \ {"absent"}) \cup {"RUNNING"}
        BY DEF Stage, Running
      <4>. QED BY <1>1, <2>1, <4>1, <4>2 DEF Run, Running
    <3>2. CASE SourceError(r)
      <4>1. x = [run[r] EXCEPT !.at = "failing"]
        BY <1>3, <3>2 DEF SourceError, RunStep, TypeOK
      <4>. QED BY <1>1, <1>2, <2>1, <4>1 DEF Run, Stage, Running
    <3>3. CASE Collect(r)
      <4>1. x = [run[r] EXCEPT !.at = "lookup", !.snapshot = source, !.todo = source]
        BY <1>3, <3>3 DEF Collect, RunStep, TypeOK
      <4>2. source \in SUBSET Table /\ "lookup" \in Stage
        BY DEF TypeOK, Stage, Running
      <4>. QED BY <1>1, <2>1, <4>1, <4>2 DEF Run, Running
    <3>4. CASE LookUp(r)
      <4>1. PICK t \in Table : x = [run[r] EXCEPT !.at = "write", !.read = row[t]]
        BY <1>3, <3>4 DEF LookUp, RunStep, TypeOK
      <4>2. row[t] \in RowStatus
        BY DEF TypeOK
      <4>. QED BY <1>1, <1>2, <2>1, <4>1, <4>2 DEF Run, Stage, Running
    <3>5. CASE WriteTable(r) \/ FlushDeleted(r)
      <4>1. PICK t \in Table, w \in {"touch", "live", "deleted"}, stage \in {"lookup", "flush"} :
              x = Written(r, t, w, stage)
        BY <1>1, <1>3, <2>1, <3>5 DEF WriteTable, FlushDeleted, RunStep, Run, TypeOK
      <4>2. x \in Run
        BY <2>1, <4>1, WrittenType DEF Stage, Running
      <4>. QED BY <1>1, <2>1, <4>1, <4>2 DEF Written, Run, Running
    <3>6. CASE MarkDeleted(r)
      <4>1. x = [run[r] EXCEPT !.at = "flush", !.todo = Live \ run[r].snapshot]
        BY <1>3, <3>6 DEF MarkDeleted, RunStep, TypeOK
      <4>2. Live \ run[r].snapshot \in SUBSET Table
        BY DEF Live
      <4>. QED BY <1>1, <1>2, <2>1, <4>1, <4>2 DEF Run, Stage, Running
    <3>. QED BY <1>4, <3>1, <3>2, <3>3, <3>4, <3>5, <3>6
  <2>. QED BY <1>2, <2>1, <2>2, <2>3 DEF Advances, Active
<1>5. CASE CredentialError(r)
  BY <1>5 DEF CredentialError, Stops, At, Active, WriteError, TypeOK, world
<1>6. CASE CommitSync(r)
  <2>1. run[r] # Idle /\ Active(run[r]) /\ run[r].job \in Job
    BY <1>1, <1>6 DEF CommitSync, At, Active, Running, Run
  <2>. QED
    BY <1>6, <2>1 DEF CommitSync, Stops, TypeOK, world
<1>7. CASE Conflict(r) \/ Deadlock(r)
  <2>1. run[r] # Idle /\ Active(run[r])
    BY <1>7 DEF Conflict, Deadlock, Target, At, Active, Running
  <2>. QED
    BY <1>7, <2>1 DEF Conflict, Deadlock, Break, Stops, jobs, world
<1>. QED
  BY <1>4, <1>5, <1>6, <1>7 DEF SyncStep

-----------------------------------------------------------------------------
(* A step of one slot changes what can still fail by at most one. *)
LEMMA CarriesFinite ==
  ASSUME NEW j \in Job
  PROVE  IsFiniteSet(Carries(j)) /\ Cardinality(Carries(j)) \in Nat
BY SlotAssumption, FS_Subset, FS_CardinalityType DEF Carries

LEMMA CarriesChange ==
  ASSUME TypeOK, NEW r \in Slot, NEW x, run' = [run EXCEPT ![r] = x], NEW j \in Job
  PROVE  /\ Cardinality(Carries(j)) \in Nat /\ Cardinality(Carries(j))' \in Nat
         /\ (Carrying(x, j) <=> Carrying(run[r], j)) => Cardinality(Carries(j))' = Cardinality(Carries(j))
         /\ Carrying(x, j) /\ ~Carrying(run[r], j) => Cardinality(Carries(j))' = Cardinality(Carries(j)) + 1
         /\ ~Carrying(x, j) /\ Carrying(run[r], j) => Cardinality(Carries(j))' = Cardinality(Carries(j)) - 1
<1>1. \A s \in Slot : run'[s] = IF s = r THEN x ELSE run[s]
  BY DEF TypeOK
<1>2. Carries(j)' = {s \in Slot : Carrying(run'[s], j)}
  BY DEF Carries, Carrying, Active
<1>3. Carries(j)' = IF Carrying(x, j) THEN Carries(j) \cup {r} ELSE Carries(j) \ {r}
  BY <1>1, <1>2 DEF Carries
<1>4. r \in Carries(j) <=> Carrying(run[r], j)
  BY DEF Carries
<1>5. IsFiniteSet(Carries(j)) /\ Cardinality(Carries(j)) \in Nat
  BY CarriesFinite
<1>6. /\ Cardinality(Carries(j) \cup {r}) = IF r \in Carries(j) THEN Cardinality(Carries(j)) ELSE Cardinality(Carries(j)) + 1
      /\ Cardinality(Carries(j) \ {r}) = IF r \in Carries(j) THEN Cardinality(Carries(j)) - 1 ELSE Cardinality(Carries(j))
  BY <1>5, FS_AddElement, FS_RemoveElement
<1>7. Cardinality(Carries(j) \cup {r}) \in Nat /\ Cardinality(Carries(j) \ {r}) \in Nat
  BY <1>5, FS_AddElement, FS_RemoveElement, FS_CardinalityType
<1>8. Cardinality(Carries(j))' = Cardinality(Carries(j)')
  OBVIOUS
<1>. QED
  BY <1>3, <1>4, <1>5, <1>6, <1>7, <1>8

LEMMA TriesNat ==
  ASSUME TypeOK, NEW j \in Job
  PROVE  Tries(j) \in Nat /\ retries[j] \in Nat /\ faults \in Nat
<1>1. Unsent(j) \in Nat /\ queue[j] \in Nat
  BY DEF Unsent, TypeOK
<1>. QED
  BY <1>1, CarriesFinite, CountsAssumption DEF Tries, TypeOK

(* No more can fail than before, but for a fault, and no count has grown. *)
LEMMA RetryKept ==
  ASSUME TypeOK, TypeOK', NEW j \in Job, RetryOf(j), NEW r \in Slot, NEW x, run' = [run EXCEPT ![r] = x],
         retries'[j] = retries[j],
         Tries(j)' + faults <= Tries(j) + faults',
         Carrying(x, j) /\ Active(x) => x.count \in Nat /\ x.count + Tries(j)' <= MaxRetries + faults'
  PROVE  RetryOf(j)'
<1>1. /\ Tries(j) \in Nat /\ Tries(j)' \in Nat /\ retries[j] \in Nat
      /\ faults \in Nat /\ faults' \in Nat /\ MaxRetries \in Nat
  <2>1. Tries(j) \in Nat /\ retries[j] \in Nat /\ faults \in Nat
    BY TriesNat
  <2>2. Unsent(j)' \in Nat
    BY DEF Unsent
  <2>3. queue'[j] \in Nat /\ faults' \in Nat
    BY CountsAssumption DEF TypeOK
  <2>4. Cardinality(Carries(j))' \in Nat
    BY CarriesChange
  <2>. QED BY <2>1, <2>2, <2>3, <2>4, CountsAssumption DEF Tries
<1>2. \A s \in Slot : run'[s] = IF s = r THEN x ELSE run[s]
  BY DEF TypeOK
<1>3. \A s \in Slot : run[s] # Idle => run[s].count \in Nat
  BY DEF TypeOK, Run
<1>4. ASSUME NEW s \in Carries(j)', Active(run'[s])
      PROVE  run'[s].count + Tries(j)' <= MaxRetries + faults'
  <2>1. s \in Slot /\ Carrying(run'[s], j)
    BY <1>4 DEF Carries, Carrying, Active
  <2>2. CASE s = r
    <3>1. run'[s] = x /\ Carrying(x, j) /\ Active(x)
      BY <1>2, <1>4, <2>1, <2>2
    <3>2. x.count + Tries(j)' <= MaxRetries + faults'
      BY <3>1, Zenon
    <3>. QED BY <3>1, <3>2, Zenon
  <2>3. CASE s # r
    <3>1. s \in Carries(j) /\ Active(run[s]) /\ run'[s] = run[s] /\ run[s] # Idle
      BY <1>2, <1>4, <2>1, <2>3 DEF Carries, Carrying
    <3>2. run[s].count + Tries(j) <= MaxRetries + faults
      BY <3>1, Zenon DEF RetryOf
    <3>3. run[s].count \in Nat /\ s \in Slot
      BY <1>3, <2>1, <3>1
    <3>. QED BY <1>1, <3>1, <3>2, <3>3
  <2>. QED BY <2>2, <2>3
<1>5. Tries(j)' <= 1 + faults' /\ retries'[j] + Tries(j)' <= MaxRetries + faults'
  BY <1>1 DEF RetryOf
<1>. QED
  BY <1>4, <1>5 DEF RetryOf, Active

LEMMA RetryKeptByOthers ==
  ASSUME TypeOK, TypeOK', NEW j \in Job, RetryOf(j), run' = run, retries'[j] = retries[j],
         Unsent(j)' + queue'[j] + faults <= Unsent(j) + queue[j] + faults'
  PROVE  RetryOf(j)'
<1>1. Carries(j)' = Carries(j)
  BY DEF Carries, Carrying, Active
<1>2. /\ Unsent(j) \in Nat /\ Unsent(j)' \in Nat /\ queue[j] \in Nat /\ queue'[j] \in Nat
      /\ faults \in Nat /\ faults' \in Nat /\ MaxRetries \in Nat /\ retries[j] \in Nat
      /\ Cardinality(Carries(j)) \in Nat
  BY CarriesFinite, CountsAssumption DEF TypeOK, Unsent
<1>3. Cardinality(Carries(j))' = Cardinality(Carries(j))
  BY <1>1
<1>4. Tries(j) \in Nat /\ Tries(j)' \in Nat /\ Tries(j)' + faults <= Tries(j) + faults'
  BY <1>2, <1>3 DEF Tries
<1>5. ASSUME NEW s \in Carries(j), Active(run[s])
      PROVE  run[s].count + Tries(j)' <= MaxRetries + faults'
  <2>1. run[s].count \in Nat
    BY <1>5 DEF Carries, Carrying, TypeOK, Run
  <2>2. run[s].count + Tries(j) <= MaxRetries + faults
    BY <1>5, Zenon DEF RetryOf
  <2>. QED BY <1>2, <1>4, <2>1, <2>2
<1>6. Tries(j)' <= 1 + faults' /\ retries'[j] + Tries(j)' <= MaxRetries + faults'
  BY <1>2, <1>4 DEF RetryOf
<1>. QED
  BY <1>1, <1>5, <1>6 DEF RetryOf, Active

LEMMA RetryStep == TypeOK /\ TypeOK' /\ InlineInv /\ RetryInv /\ [Next]_vars => RetryInv'
<1>. SUFFICES ASSUME TypeOK, TypeOK', InlineInv, RetryInv, [Next]_vars, NEW j \in Job PROVE RetryOf(j)'
  BY DEF RetryInv
<1>0. /\ RetryOf(j) /\ faults \in Nat /\ queue[j] \in Nat /\ retries[j] \in Nat /\ Unsent(j) \in Nat
      /\ Cardinality(Carries(j)) \in Nat /\ MaxRetries \in Nat
  BY CarriesFinite, CountsAssumption DEF RetryInv, TypeOK, Unsent
<1>1. ASSUME UNCHANGED <<run, retries>>, Unsent(j)' + queue'[j] + faults <= Unsent(j) + queue[j] + faults'
      PROVE  RetryOf(j)'
  BY <1>0, <1>1, RetryKeptByOthers
<1>2. ASSUME NEW k \in Job, FlushJob(k) \/ Dispatch(k) \/ CommitJob(k) \/ CrashRequest(k)
      PROVE  RetryOf(j)'
  <2>1. Unsent(j)' + queue'[j] + faults <= Unsent(j) + queue[j] + faults'
    <3>1. CASE j = k
      BY <1>0, <1>2, <3>1 DEF FlushJob, Dispatch, CommitJob, CrashRequest, Unsent, TypeOK, world
    <3>2. CASE j # k
      BY <1>0, <1>2, <3>2 DEF FlushJob, Dispatch, CommitJob, CrashRequest, Unsent, TypeOK, world
    <3>. QED BY <3>1, <3>2
  <2>. QED BY <1>1, <1>2, <2>1 DEF FlushJob, Dispatch, CommitJob, CrashRequest, jobs
<1>3. ASSUME NEW r \in Slot, NEW k \in Job, RunInline(r, k)
      PROVE  RetryOf(j)'
  <2>1. ~Carrying(NewRun(k, TRUE), j) /\ ~Carrying(run[r], j) /\ run' = [run EXCEPT ![r] = NewRun(k, TRUE)]
    BY <1>3 DEF RunInline, NewRun, Carrying
  <2>2. Unsent(j)' <= Unsent(j) /\ Unsent(j)' \in Nat
    BY <1>3 DEF RunInline, Unsent, TypeOK
  <2>3. queue' = queue /\ faults' = faults /\ retries' = retries
    BY <1>3 DEF RunInline, world, jobs
  <2>4. Cardinality(Carries(j))' = Cardinality(Carries(j))
    BY <2>1, CarriesChange
  <2>5. Tries(j)' + faults <= Tries(j) + faults'
    BY <1>0, <2>2, <2>3, <2>4 DEF Tries
  <2>. QED BY <1>0, <2>1, <2>3, <2>5, RetryKept
<1>4. ASSUME NEW r \in Slot, NEW k \in Job, LoadJob(r, k)
      PROVE  RetryOf(j)'
  <2>1. /\ queue' = [queue EXCEPT ![k] = @ - 1] /\ queue[k] > 0 /\ run[r] = Idle
        /\ UNCHANGED <<retries, request, faults>>
    BY <1>4 DEF LoadJob, jobs, world
  <2>2. Unsent(j)' = Unsent(j)
    BY <2>1 DEF Unsent
  <2>3. queue'[j] = IF j = k THEN queue[j] - 1 ELSE queue[j]
    BY <2>1 DEF TypeOK
  <2>4. CASE status[k] = "absent"
    <3>1. run' = run
      BY <1>4, <2>4 DEF LoadJob
    <3>2. Unsent(j)' + queue'[j] + faults <= Unsent(j) + queue[j] + faults'
      BY <1>0, <2>1, <2>2, <2>3
    <3>. QED BY <1>1, <2>1, <3>1, <3>2
  <2>5. CASE status[k] # "absent"
    <3>1. run' = [run EXCEPT ![r] = NewRun(k, FALSE)] /\ NewRun(k, FALSE) \in Run
      BY <1>4, <2>5, NewRunType DEF LoadJob
    <3>2. /\ ~Carrying(run[r], j) /\ (Carrying(NewRun(k, FALSE), j) <=> j = k)
          /\ NewRun(k, FALSE).count = retries[k]
      BY <2>1, <3>1, IdleAssumption DEF NewRun, Carrying, Active
    <3>3. Cardinality(Carries(j))' = IF j = k THEN Cardinality(Carries(j)) + 1 ELSE Cardinality(Carries(j))
      BY <3>1, <3>2, CarriesChange
    <3>4. Tries(j)' = Tries(j)
      BY <1>0, <2>2, <2>3, <3>3 DEF Tries
    <3>5. j = k => retries[k] \in Nat /\ retries[k] + Tries(j)' <= MaxRetries + faults'
      BY <1>0, <2>1, <3>4 DEF RetryOf
    <3>6. Tries(j)' + faults <= Tries(j) + faults'
      BY <1>0, <2>1, <3>4, TriesNat
    <3>7. Carrying(NewRun(k, FALSE), j) => /\ NewRun(k, FALSE).count \in Nat
                                          /\ NewRun(k, FALSE).count + Tries(j)' <= MaxRetries + faults'
      BY <3>2, <3>5
    <3>. QED BY <1>0, <2>1, <3>1, <3>6, <3>7, RetryKept
  <2>. QED BY <2>4, <2>5
<1>5. ASSUME NEW r \in Slot, SyncStep(r) \/ CrashWorker(r)
      PROVE  RetryOf(j)'
  <2>0. /\ run[r] # Idle => run[r] \in Run
        /\ Carrying(run[r], j) <=> r \in Carries(j)
    BY DEF TypeOK, Carries
  <2>1. CASE Advances(r)
    <3>1. PICK x \in Run :
            /\ run' = [run EXCEPT ![r] = x]
            /\ Active(x) /\ x.job = run[r].job /\ x.inline = run[r].inline /\ x.count = run[r].count
      BY <2>1 DEF Advances
    <3>2. Carrying(x, j) <=> Carrying(run[r], j)
      BY <2>1, <3>1, IdleAssumption DEF Advances, Carrying
    <3>3. UNCHANGED <<retries, request, queue, faults>>
      BY <2>1 DEF Advances
    <3>4. Cardinality(Carries(j))' = Cardinality(Carries(j))
      BY <3>1, <3>2, CarriesChange
    <3>5. Tries(j)' = Tries(j)
      BY <3>3, <3>4 DEF Tries, Unsent
    <3>6. Tries(j)' + faults <= Tries(j) + faults'
      BY <3>3, <3>5, TriesNat
    <3>7. Carrying(run[r], j) => run[r].count + Tries(j) <= MaxRetries + faults
      BY <1>0, <2>0, <2>1, Zenon DEF RetryOf, Advances
    <3>8. Carrying(x, j) => x.count \in Nat /\ x.count + Tries(j)' <= MaxRetries + faults'
      <4>1. x.count \in Nat
        BY DEF Run
      <4>. QED BY <3>1, <3>2, <3>3, <3>5, <3>7, <4>1
    <3>. QED BY <1>0, <3>1, <3>3, <3>6, <3>8, RetryKept
  <2>2. CASE Stops(r) \/ Acknowledge(r)
    <3>1. PICK x : run' = [run EXCEPT ![r] = x] /\ (x = Idle \/ (run[r] # Idle /\ x = Ended(r, "finished")))
      BY <2>2 DEF Stops, Acknowledge, RunStep
    <3>2. ~Carrying(x, j)
      BY <3>1, EndedIs DEF Carrying, Active, Running
    <3>3. UNCHANGED <<retries, request, queue, faults>>
      BY <2>2 DEF Stops, Acknowledge, RunStep, jobs, world
    <3>4. Cardinality(Carries(j))' <= Cardinality(Carries(j)) /\ Cardinality(Carries(j))' \in Nat
      <4>1. /\ Cardinality(Carries(j))' \in Nat
            /\ \/ Cardinality(Carries(j))' = Cardinality(Carries(j))
               \/ Cardinality(Carries(j))' = Cardinality(Carries(j)) - 1
        BY <3>1, <3>2, CarriesChange
      <4>. QED BY <1>0, <4>1
    <3>5. Tries(j)' + faults <= Tries(j) + faults'
      <4>1. Unsent(j)' = Unsent(j)
        BY <3>3 DEF Unsent
      <4>. QED BY <1>0, <3>3, <3>4, <4>1 DEF Tries
    <3>. QED BY <1>0, <3>1, <3>2, <3>3, <3>5, RetryKept
  <2>3. CASE CommitFailure(r)
    <3>1. /\ run[r] # Idle /\ run[r] \in Run /\ run[r].at = "failing" /\ run[r].count \in Nat /\ run[r].job \in Job
          /\ run' = [run EXCEPT ![r] = Ended(r, "failed")] /\ UNCHANGED <<request, queue, faults>>
          /\ retries' = IF run[r].inline THEN retries
                        ELSE [retries EXCEPT ![run[r].job] = run[r].count + 1]
      BY <2>0, <2>3 DEF CommitFailure, At, world, Run
    <3>2. Unsent(j)' = Unsent(j)
      BY <3>1 DEF Unsent
    <3>3. CASE run[r].inline \/ run[r].job # j
      <4>1. ~Carrying(run[r], j) /\ ~Carrying(Ended(r, "failed"), j) /\ retries'[j] = retries[j]
        BY <3>1, <3>3, EndedIs DEF Carrying, TypeOK
      <4>2. Cardinality(Carries(j))' = Cardinality(Carries(j))
        BY <3>1, <4>1, CarriesChange
      <4>3. Tries(j)' + faults <= Tries(j) + faults'
        BY <1>0, <3>1, <3>2, <4>2 DEF Tries
      <4>. QED BY <1>0, <3>1, <4>1, <4>3, RetryKept
    <3>4. CASE ~run[r].inline /\ run[r].job = j
      <4>0. DEFINE x == Ended(r, "failed")
      <4>1. Carrying(run[r], j) /\ Active(run[r]) /\ retries'[j] = run[r].count + 1
        BY <3>1, <3>4 DEF Carrying, Active, Running, TypeOK
      <4>2. ~Active(x) /\ (Carrying(x, j) <=> run[r].count + 1 < MaxRetries)
        BY <3>1, <3>4, EndedIs DEF Carrying, Active, Running
      <4>3. Cardinality(Carries(j))' = IF run[r].count + 1 < MaxRetries THEN Cardinality(Carries(j))
                                       ELSE Cardinality(Carries(j)) - 1
        BY <3>1, <4>1, <4>2, CarriesChange
      <4>4. run[r].count + Tries(j) <= MaxRetries + faults /\ Tries(j) <= 1 + faults
        BY <1>0, <2>0, <4>1, Zenon DEF RetryOf
      <4>5. Tries(j)' = (IF run[r].count + 1 < MaxRetries THEN Tries(j) ELSE Tries(j) - 1) /\ Tries(j) \in Nat
        <5>1. CASE run[r].count + 1 < MaxRetries
          BY <1>0, <3>1, <3>2, <4>3, <5>1, TriesNat DEF Tries
        <5>2. CASE ~(run[r].count + 1 < MaxRetries)
          BY <1>0, <3>1, <3>2, <4>3, <5>2, TriesNat DEF Tries
        <5>. QED BY <5>1, <5>2
      <4>6. Tries(j)' <= 1 + faults' /\ retries'[j] + Tries(j)' <= MaxRetries + faults'
        BY <1>0, <3>1, <4>1, <4>4, <4>5
      <4>7. ASSUME NEW s \in Carries(j)', Active(run'[s])
            PROVE  run'[s].count + Tries(j)' <= MaxRetries + faults'
        <5>1. run'[r] = x /\ s \in Slot /\ (s # r => run'[s] = run[s])
          BY <3>1 DEF TypeOK, Carries
        <5>2. s # r
          BY <4>2, <4>7, <5>1
        <5>3. s \in Carries(j) /\ Active(run[s]) /\ run[s] # Idle
          BY <4>7, <5>1, <5>2 DEF Carries, Carrying
        <5>4. run[s].count + Tries(j) <= MaxRetries + faults
          BY <1>0, <5>3, Zenon DEF RetryOf
        <5>5. run[s].count \in Nat
          BY <5>1, <5>3 DEF TypeOK, Run
        <5>. QED BY <1>0, <3>1, <4>5, <5>1, <5>2, <5>4, <5>5
      <4>. QED BY <4>6, <4>7 DEF RetryOf, Active
    <3>. QED BY <3>3, <3>4
  <2>4. CASE Retry(r)
    <3>0. DEFINE x == [run[r] EXCEPT !.at = "finished", !.count = 0]
    <3>1. /\ run[r] # Idle /\ run[r] \in Run /\ run[r].at = "failed" /\ run[r].job \in Job
          /\ run' = [run EXCEPT ![r] = x] /\ UNCHANGED <<request, retries, faults>>
          /\ queue' = IF run[r].count + 1 < MaxRetries
                      THEN [queue EXCEPT ![run[r].job] = @ + 1] ELSE queue
      BY <2>0, <2>4 DEF Retry, At, jobs, world, Run, TypeOK
    <3>2. x.at = "finished"
      BY <3>1 DEF Run
    <3>. HIDE DEF x
    <3>3. ~Carrying(x, j)
      BY <3>2 DEF Carrying, Active, Running
    <3>4. Unsent(j)' = Unsent(j)
      BY <3>1 DEF Unsent
    <3>5. Tries(j)' + faults <= Tries(j) + faults'
      <4>1. CASE run[r].count + 1 < MaxRetries /\ run[r].job = j /\ ~run[r].inline
        <5>1. Carrying(run[r], j) /\ queue'[j] = queue[j] + 1
          BY <3>1, <4>1 DEF Carrying, TypeOK
        <5>2. Cardinality(Carries(j))' = Cardinality(Carries(j)) - 1
          BY <3>1, <3>3, <5>1, CarriesChange
        <5>. QED BY <1>0, <3>1, <3>4, <5>1, <5>2 DEF Tries
      <4>2. CASE run[r].count + 1 >= MaxRetries \/ run[r].job # j
        <5>1. ~Carrying(run[r], j) /\ queue'[j] = queue[j]
          BY <1>0, <3>1, <4>2 DEF Carrying, Active, Running, Run, TypeOK
        <5>2. Cardinality(Carries(j))' = Cardinality(Carries(j))
          BY <3>1, <3>3, <5>1, CarriesChange
        <5>. QED BY <1>0, <3>1, <3>4, <5>1, <5>2 DEF Tries
      <4>3. ~run[r].inline
        BY <3>1 DEF InlineInv, Of, Active, Running
      <4>4. run[r].count \in Nat
        BY <3>1 DEF Run
      <4>5. run[r].count + 1 < MaxRetries \/ run[r].count + 1 >= MaxRetries
        BY <1>0, <4>4
      <4>. QED BY <4>1, <4>2, <4>3, <4>5
    <3>. QED BY <1>0, <3>1, <3>3, <3>5, RetryKept
  <2>5. CASE CrashWorker(r)
    <3>1. /\ run[r] # Idle /\ run[r] \in Run /\ run' = [run EXCEPT ![r] = Idle] /\ faults' = faults + 1
          /\ UNCHANGED <<request, retries>>
          /\ queue' = IF run[r].inline THEN queue ELSE [queue EXCEPT ![run[r].job] = @ + 1]
      BY <2>0, <2>5 DEF CrashWorker, jobs
    <3>2. ~Carrying(Idle, j)
      BY DEF Carrying
    <3>3. Cardinality(Carries(j))' <= Cardinality(Carries(j)) /\ Cardinality(Carries(j))' \in Nat
      <4>1. /\ Cardinality(Carries(j))' \in Nat
            /\ \/ Cardinality(Carries(j))' = Cardinality(Carries(j))
               \/ Cardinality(Carries(j))' = Cardinality(Carries(j)) - 1
        BY <3>1, <3>2, CarriesChange
      <4>. QED BY <1>0, <4>1
    <3>4. queue'[j] <= queue[j] + 1 /\ queue'[j] \in Nat
      BY <1>0, <3>1 DEF TypeOK
    <3>5. Unsent(j)' = Unsent(j)
      BY <3>1 DEF Unsent
    <3>6. Tries(j)' + faults <= Tries(j) + faults'
      BY <1>0, <3>1, <3>3, <3>4, <3>5 DEF Tries
    <3>. QED BY <1>0, <3>1, <3>2, <3>6, RetryKept
  <2>. QED BY <1>5, <2>1, <2>2, <2>3, <2>4, <2>5, StepKinds
<1>6. ASSUME NEW t \in Table, ChangeSource(t)
      PROVE  RetryOf(j)'
  <2>1. UNCHANGED <<run, retries, request, queue, faults>>
    BY <1>6 DEF ChangeSource, jobs
  <2>2. Unsent(j)' = Unsent(j)
    BY <2>1 DEF Unsent
  <2>. QED BY <1>0, <1>1, <2>1, <2>2
<1>7. ASSUME NEW r \in Slot, Redeliver(r)
      PROVE  RetryOf(j)'
  <2>1. /\ UNCHANGED <<run, retries, request>> /\ faults' = faults + 1
        /\ queue'[j] <= queue[j] + 1 /\ queue'[j] \in Nat
    BY <1>0, <1>7 DEF Redeliver, jobs, TypeOK
  <2>2. Unsent(j)' = Unsent(j)
    BY <2>1 DEF Unsent
  <2>. QED BY <1>0, <1>1, <2>1, <2>2
<1>8. CASE UNCHANGED vars
  <2>1. UNCHANGED <<run, retries, request, queue, faults>>
    BY <1>8 DEF vars
  <2>2. Unsent(j)' = Unsent(j)
    BY <2>1 DEF Unsent
  <2>. QED BY <1>0, <1>1, <2>1, <2>2
<1>. QED
  BY <1>2, <1>3, <1>4, <1>5, <1>6, <1>7, <1>8 DEF Next

(* At most MAX_RETRIES failures are counted, and one more for each fault. *)
LEMMA RetryBounds == TypeOK /\ RetryInv => RetriesBounded
<1>. SUFFICES ASSUME TypeOK, RetryInv, NEW j \in Job PROVE retries[j] <= MaxRetries + faults
  BY DEF RetriesBounded
<1>1. Tries(j) \in Nat /\ retries[j] \in Nat /\ faults \in Nat /\ MaxRetries \in Nat
  BY TriesNat, CountsAssumption
<1>2. retries[j] + Tries(j) <= MaxRetries + faults
  BY DEF RetryInv, RetryOf
<1>. QED
  BY <1>1, <1>2

LEMMA InitRetry == Init => RetryInv /\ InlineInv /\ ServedInv
<1>. SUFFICES ASSUME Init PROVE RetryInv /\ InlineInv /\ ServedInv
  OBVIOUS
<1>1. ASSUME NEW j \in Job PROVE Carries(j) = {} /\ Unsent(j) = 1 /\ queue[j] = 0 /\ retries[j] = 0
  BY DEF Init, Carries, Carrying, Unsent
<1>2. RetryInv
  <2>. SUFFICES ASSUME NEW j \in Job PROVE RetryOf(j)
    BY DEF RetryInv
  <2>1. Tries(j) = 1 /\ faults = 0 /\ MaxRetries \in Nat /\ 1 <= MaxRetries
    BY <1>1, FS_EmptySet, CountsAssumption DEF Tries, Init
  <2>. QED BY <1>1, <2>1 DEF RetryOf
<1>3. InlineInv
  BY <1>1 DEF Init, InlineInv, Undispatched, Of
<1>4. ServedInv
  BY <1>1 DEF Init, ServedInv, ToRetry
<1>. QED
  BY <1>2, <1>3, <1>4

-----------------------------------------------------------------------------
(* A job is either run by the request that could not dispatch it, or by the  *)
(* tasks of its messages, never by both.                                     *)
LEMMA InlineStep == TypeOK /\ InlineInv /\ [Next]_vars => InlineInv'
<1>. SUFFICES ASSUME TypeOK, InlineInv, [Next]_vars PROVE InlineInv'
  OBVIOUS
<1>1. CASE UNCHANGED <<request, queue, retries, run>>
  BY <1>1 DEF InlineInv, Undispatched, Of, Active
<1>2. ASSUME NEW k \in Job, FlushJob(k) \/ Dispatch(k) \/ CommitJob(k) \/ CrashRequest(k)
      PROVE  InlineInv'
  <2>1. run' = run /\ retries' = retries
    BY <1>2 DEF FlushJob, Dispatch, CommitJob, CrashRequest, jobs
  <2>2. \A j \in Job \ {k} : request'[j] = request[j] /\ queue'[j] = queue[j]
    BY <1>2 DEF FlushJob, Dispatch, CommitJob, CrashRequest, TypeOK
  <2>3. /\ request[k] \in {"none", "flushed", "dispatched"}
        /\ request'[k] \in {"none", "flushed"} => request[k] = "none" /\ queue' = queue
    BY <1>2 DEF FlushJob, Dispatch, CommitJob, CrashRequest, TypeOK
  <2>4. \A r \in Slot : Of(run[r], k) => ~run[r].inline
    BY <2>3 DEF InlineInv
  <2>5. \A j \in Job \ {k} : Undispatched(j)' <=> Undispatched(j)
    BY <2>1, <2>2 DEF Undispatched, Of
  <2>6. Undispatched(k) /\ queue' = queue => Undispatched(k)'
    BY <2>1 DEF Undispatched, Of
  <2>. QED BY <2>1, <2>2, <2>3, <2>4, <2>5, <2>6 DEF InlineInv, Of, Active
<1>3. ASSUME NEW r \in Slot, NEW k \in Job, RunInline(r, k)
      PROVE  InlineInv'
  <2>1. /\ request[k] = "flushed" /\ run[r] = Idle /\ UNCHANGED <<queue, retries>>
        /\ request' = [request EXCEPT ![k] = "ended"] /\ run' = [run EXCEPT ![r] = NewRun(k, TRUE)]
    BY <1>3 DEF RunInline, jobs
  <2>2. /\ Of(NewRun(k, TRUE), k) /\ NewRun(k, TRUE).inline /\ Active(NewRun(k, TRUE))
        /\ \A j \in Job \ {k} : ~Of(NewRun(k, TRUE), j)
    <3>1. NewRun(k, TRUE) # Idle
      BY NewRunType, IdleAssumption
    <3>. QED BY <3>1 DEF NewRun, Of, Active
  <2>3. \A s \in Slot : run'[s] = IF s = r THEN NewRun(k, TRUE) ELSE run[s]
    BY <2>1 DEF TypeOK
  <2>4. \A j \in Job : request'[j] = IF j = k THEN "ended" ELSE request[j]
    BY <2>1 DEF TypeOK
  <2>5. \A j \in Job, s \in Slot : Of(run[s], j)' => Of(run[s], j) \/ (s = r /\ j = k)
    BY <2>2, <2>3 DEF Of
  <2>6. \A j \in Job : Undispatched(j) => Undispatched(j)'
    BY <2>1, <2>2, <2>3, <2>5 DEF Undispatched
  <2>7. Undispatched(k) /\ \A s \in Slot : ~Of(run[s], k)
    BY <2>1 DEF InlineInv
  <2>8. ASSUME NEW j \in Job, NEW s \in Slot, Of(run[s], j)', run'[s].inline
        PROVE  Undispatched(j)' /\ request'[j] = "ended" /\ Active(run[s])'
    <3>1. CASE s = r /\ j = k
      BY <2>2, <2>3, <2>4, <2>6, <2>7, <3>1 DEF Active
    <3>2. CASE ~(s = r /\ j = k)
      <4>1. Of(run[s], j) /\ run'[s] = run[s] /\ j # k
        BY <2>1, <2>3, <2>5, <2>7, <2>8, <3>2 DEF Of
      <4>. QED BY <2>4, <2>6, <2>8, <4>1 DEF InlineInv, Active
    <3>. QED BY <3>1, <3>2
  <2>9. ASSUME NEW j \in Job, request'[j] \in {"none", "flushed"}
        PROVE  Undispatched(j)' /\ \A s \in Slot : ~Of(run[s], j)'
    BY <2>4, <2>5, <2>6, <2>9 DEF InlineInv
  <2>. QED BY <2>8, <2>9 DEF InlineInv
<1>4. ASSUME NEW r \in Slot, NEW k \in Job, LoadJob(r, k)
      PROVE  InlineInv'
  <2>1. queue[k] > 0 /\ run[r] = Idle /\ UNCHANGED <<request, retries>>
        /\ \A j \in Job \ {k} : queue'[j] = queue[j]
    BY <1>4 DEF LoadJob, jobs, TypeOK
  <2>2. ~Undispatched(k) /\ queue[k] \in Nat
    BY <2>1 DEF Undispatched, TypeOK
  <2>3. \A s \in Slot : \/ run'[s] = run[s]
                        \/ /\ run'[s].job = k /\ ~run'[s].inline
    BY <1>4 DEF LoadJob, NewRun, TypeOK
  <2>4. \A j \in Job \ {k}, s \in Slot : Of(run[s], j)' => Of(run[s], j) /\ run'[s] = run[s]
    BY <2>3 DEF Of
  <2>5. \A j \in Job \ {k} : Undispatched(j) => Undispatched(j)'
    BY <2>1, <2>4 DEF Undispatched
  <2>6. request[k] \notin {"none", "flushed"} /\ \A s \in Slot : ~(Of(run[s], k)' /\ run'[s].inline)
    BY <2>2, <2>3 DEF InlineInv, Of
  <2>. QED BY <2>1, <2>4, <2>5, <2>6 DEF InlineInv, Active
<1>5. ASSUME NEW r \in Slot, SyncStep(r) \/ CrashWorker(r)
      PROVE  InlineInv'
  <2>1. request' = request
    BY <1>5 DEF SyncStep, CredentialError, StartSync, SourceError, Collect, LookUp, WriteTable, MarkDeleted,
      FlushDeleted, CommitSync, CommitFailure, Retry, Acknowledge, Conflict, Deadlock, Break,
      RunStep, CrashWorker
  <2>2. PICK x \in Run \cup {Idle} : run' = [run EXCEPT ![r] = x]
    BY <1>5, RunTypes
  <2>3. \A s \in Slot : run'[s] = IF s = r THEN x ELSE run[s]
    BY <2>2 DEF TypeOK
  <2>4. run[r] # Idle /\ run[r] \in Run /\ run[r].job \in Job
    BY <1>5, StepKinds DEF Advances, Stops, CommitFailure, Retry, Acknowledge, CrashWorker, At, TypeOK, Run
  <2>5. /\ x # Idle => x.job = run[r].job /\ x.inline = run[r].inline
        /\ x # Idle /\ x.inline => Active(x)
        /\ run[r].inline => UNCHANGED <<queue, retries>>
        /\ \A j \in Job : j # run[r].job => queue'[j] = queue[j] /\ retries'[j] = retries[j]
    <3>1. CASE Advances(r)
      BY <2>3, <3>1 DEF Advances, TypeOK
    <3>2. CASE Stops(r)
      BY <2>3, <2>4, <3>2, EndedIs DEF Stops, TypeOK
    <3>3. CASE CommitFailure(r)
      <4>1. x = Ended(r, "failed") /\ UNCHANGED queue
        BY <2>3, <3>3 DEF CommitFailure, TypeOK
      <4>2. retries' = IF run[r].inline THEN retries
                       ELSE [retries EXCEPT ![run[r].job] = run[r].count + 1]
        BY <3>3 DEF CommitFailure
      <4>. QED BY <2>4, <4>1, <4>2, EndedIs DEF TypeOK
    <3>4. CASE Retry(r)
      <4>1. x = [run[r] EXCEPT !.at = "finished", !.count = 0]
        BY <2>3, <3>4 DEF Retry, TypeOK
      <4>2. x.job = run[r].job /\ x.inline = run[r].inline
        BY <2>4, <4>1 DEF Run
      <4>3. ~run[r].inline
        BY <2>4, <3>4 DEF Retry, At, InlineInv, Of, Active, Running
      <4>. QED BY <3>4, <4>2, <4>3 DEF Retry, TypeOK, jobs
    <3>5. CASE Acknowledge(r)
      BY <2>3, <3>5 DEF Acknowledge, RunStep, TypeOK, jobs
    <3>6. CASE CrashWorker(r)
      BY <2>3, <3>6 DEF CrashWorker, TypeOK, jobs
    <3>. QED BY <1>5, <3>1, <3>2, <3>3, <3>4, <3>5, <3>6, StepKinds
  <2>6. \A j \in Job, s \in Slot : Of(run[s], j)' => Of(run[s], j) /\ run'[s].inline = run[s].inline
    BY <2>3, <2>4, <2>5 DEF Of
  <2>7. \A j \in Job : Undispatched(j) => queue'[j] = queue[j] /\ retries'[j] = retries[j]
    BY <2>4, <2>5 DEF Undispatched, Of
  <2>8. \A j \in Job : Undispatched(j) => Undispatched(j)'
    BY <2>6, <2>7 DEF Undispatched
  <2>9. \A j \in Job, s \in Slot : Of(run[s], j)' /\ run'[s].inline => Active(run[s])'
    BY <2>3, <2>5, <2>6 DEF InlineInv, Of, Active
  <2>. QED BY <2>1, <2>6, <2>8, <2>9, SMTT(30) DEF InlineInv
<1>6. ASSUME NEW r \in Slot, Redeliver(r)
      PROVE  InlineInv'
  <2>1. /\ run' = run /\ request' = request /\ retries' = retries /\ run[r] # Idle /\ ~run[r].inline
        /\ \A j \in Job \ {run[r].job} : queue'[j] = queue[j]
    BY <1>6 DEF Redeliver, jobs, TypeOK
  <2>2. \A j \in Job : Undispatched(j) => run[r].job # j
    BY <2>1 DEF Undispatched, Of
  <2>3. \A j \in Job : Undispatched(j) => Undispatched(j)'
    BY <2>1, <2>2 DEF Undispatched, Of
  <2>. QED BY <2>1, <2>3 DEF InlineInv, Of, Active
<1>. QED
  BY <1>1, <1>2, <1>3, <1>4, <1>5, <1>6 DEF Next, vars, ChangeSource, jobs

-----------------------------------------------------------------------------
(* A failure that is to be retried has a message or a run that carries one.  *)
LEMMA ServedStep == TypeOK /\ TypeOK' /\ InlineInv /\ ServedInv /\ [Next]_vars => ServedInv'
<1>. SUFFICES ASSUME TypeOK, TypeOK', InlineInv, ServedInv, [Next]_vars, NEW j \in Job, ToRetry(j)'
              PROVE  queue'[j] > 0 \/ Carries(j)' # {}
  BY DEF ServedInv
<1>0. queue[j] \in Nat /\ queue'[j] \in Nat
  BY DEF TypeOK
\* no slot loses what it carries
<1>1. ASSUME ToRetry(j), queue'[j] >= queue[j],
             \A s \in Slot : Carrying(run[s], j) => Carrying(run'[s], j) \/ queue'[j] > 0
      PROVE  queue'[j] > 0 \/ Carries(j)' # {}
  <2>1. queue[j] > 0 \/ Carries(j) # {}
    BY <1>1 DEF ServedInv
  <2>2. CASE queue[j] > 0
    BY <1>0, <1>1, <2>2
  <2>3. CASE Carries(j) # {}
    <3>1. PICK s \in Slot : Carrying(run[s], j)
      BY <2>3 DEF Carries
    <3>2. Carrying(run'[s], j) => s \in Carries(j)'
      BY DEF Carries, Carrying, Active
    <3>. QED BY <1>1, <3>1, <3>2
  <2>. QED BY <2>1, <2>2, <2>3
<1>2. ASSUME NEW k \in Job, FlushJob(k) \/ Dispatch(k) \/ CommitJob(k) \/ CrashRequest(k)
      PROVE  queue'[j] > 0 \/ Carries(j)' # {}
  <2>1. run' = run /\ queue'[j] >= queue[j]
    BY <1>0, <1>2 DEF FlushJob, Dispatch, CommitJob, CrashRequest, TypeOK
  <2>2. ToRetry(j)
    BY <1>2 DEF FlushJob, Dispatch, CommitJob, CrashRequest, ToRetry, catalog, jobs, TypeOK
  <2>. QED BY <1>1, <2>1, <2>2
<1>3. ASSUME NEW r \in Slot, NEW k \in Job, RunInline(r, k)
      PROVE  queue'[j] > 0 \/ Carries(j)' # {}
  <2>1. ToRetry(j) /\ queue' = queue
    BY <1>3 DEF RunInline, ToRetry, catalog, jobs
  <2>2. \A s \in Slot : Carrying(run[s], j) => Carrying(run'[s], j)
    BY <1>3 DEF RunInline, Carrying, TypeOK
  <2>. QED BY <1>0, <1>1, <2>1, <2>2
<1>4. ASSUME NEW r \in Slot, NEW k \in Job, LoadJob(r, k)
      PROVE  queue'[j] > 0 \/ Carries(j)' # {}
  <2>1. ToRetry(j)
    BY <1>4 DEF LoadJob, ToRetry, catalog, jobs
  <2>2. CASE k = j
    <3>1. status[j] # "absent"
      BY <2>1 DEF ToRetry
    <3>2. run'[r] = NewRun(j, FALSE) /\ NewRun(j, FALSE) # Idle
      <4>1. run' = [run EXCEPT ![r] = NewRun(j, FALSE)]
        BY <1>4, <2>2, <3>1 DEF LoadJob
      <4>2. NewRun(j, FALSE) \in Run
        BY <3>1, NewRunType
      <4>. QED BY <4>1, <4>2, IdleAssumption DEF TypeOK
    <3>3. Carrying(run'[r], j)
      BY <3>2 DEF NewRun, Carrying, Active
    <3>. QED BY <3>3 DEF Carries, Carrying, Active
  <2>3. CASE k # j
    <3>1. queue'[j] = queue[j] /\ \A s \in Slot : Carrying(run[s], j) => Carrying(run'[s], j)
      BY <1>4, <2>3 DEF LoadJob, TypeOK, Carrying
    <3>. QED BY <1>0, <1>1, <2>1, <3>1
  <2>. QED BY <2>2, <2>3
<1>5. ASSUME NEW r \in Slot, SyncStep(r) \/ CrashWorker(r)
      PROVE  queue'[j] > 0 \/ Carries(j)' # {}
  <2>1. run[r] # Idle => run[r] \in Run /\ run[r].job \in Job
    BY DEF TypeOK, Run
  <2>2. CASE Advances(r)
    <3>1. ToRetry(j) /\ queue' = queue
      BY <2>2 DEF Advances, ToRetry
    <3>2. PICK x \in Run :
            /\ run' = [run EXCEPT ![r] = x]
            /\ Active(x) /\ x.job = run[r].job /\ x.inline = run[r].inline
      BY <2>2 DEF Advances
    <3>3. \A s \in Slot : run'[s] = IF s = r THEN x ELSE run[s]
      BY <3>2 DEF TypeOK
    <3>4. \A s \in Slot : Carrying(run[s], j) => Carrying(run'[s], j)
      BY <3>2, <3>3, IdleAssumption DEF Carrying
    <3>. QED BY <1>0, <1>1, <3>1, <3>4
  <2>3. CASE Stops(r)
    <3>1. run[r].job # j
      BY <2>1, <2>3 DEF Stops, ToRetry
    <3>2. ToRetry(j) /\ queue' = queue
      BY <2>3, <3>1 DEF Stops, ToRetry
    <3>3. \A s \in Slot : Carrying(run[s], j) => Carrying(run'[s], j)
      BY <2>3, <3>1 DEF Stops, Carrying, TypeOK
    <3>. QED BY <1>0, <1>1, <3>2, <3>3
  <2>4. CASE CommitFailure(r)
    <3>1. /\ run[r] # Idle /\ run[r] \in Run /\ run[r].at = "failing" /\ run[r].count \in Nat
          /\ run' = [run EXCEPT ![r] = Ended(r, "failed")] /\ queue' = queue
          /\ retries' = IF run[r].inline THEN retries
                        ELSE [retries EXCEPT ![run[r].job] = run[r].count + 1]
          /\ status' = [status EXCEPT ![run[r].job] = "FAILED"]
          /\ abandoned' = abandoned \ {run[r].job}
      BY <2>1, <2>4 DEF CommitFailure, At, Run
    <3>2. \A s \in Slot : run'[s] = IF s = r THEN Ended(r, "failed") ELSE run[s]
      BY <3>1 DEF TypeOK
    <3>3. CASE run[r].job # j
      <4>1. ToRetry(j)
        <5>1. status'[j] = status[j] /\ retries'[j] = retries[j] /\ (j \in abandoned' <=> j \in abandoned)
          BY <3>1, <3>3 DEF TypeOK
        <5>2. error'[j] = error[j]
          BY <2>4, <3>3 DEF CommitFailure, WriteError, TypeOK
        <5>. QED BY <5>1, <5>2 DEF ToRetry
      <4>2. \A s \in Slot : Carrying(run[s], j) => Carrying(run'[s], j)
        BY <3>2, <3>3 DEF Carrying
      <4>. QED BY <1>0, <1>1, <3>1, <4>1, <4>2
    <3>4. CASE run[r].job = j /\ run[r].inline
      <4>1. retries'[j] = 0
        BY <3>1, <3>4 DEF InlineInv, Of, Undispatched
      <4>. QED BY <4>1, CountsAssumption DEF ToRetry
    <3>5. CASE run[r].job = j /\ ~run[r].inline
      <4>1. run[r].count + 1 \in 1..(MaxRetries - 1)
        BY <3>1, <3>5 DEF ToRetry, TypeOK
      <4>2. Carrying(run'[r], j)
        BY <3>1, <3>2, <3>5, <4>1, EndedIs, CountsAssumption DEF Carrying
      <4>. QED BY <4>2 DEF Carries, Carrying, Active
    <3>. QED BY <3>3, <3>4, <3>5
  <2>5. CASE Retry(r)
    <3>1. /\ run[r] # Idle /\ run[r].at = "failed" /\ run[r].job \in Job /\ ToRetry(j)
          /\ \A s \in Slot \ {r} : run'[s] = run[s]
          /\ queue' = IF run[r].count + 1 < MaxRetries
                      THEN [queue EXCEPT ![run[r].job] = @ + 1] ELSE queue
      BY <2>1, <2>5 DEF Retry, At, ToRetry, catalog, jobs, TypeOK
    <3>2. queue'[j] >= queue[j]
      BY <1>0, <3>1 DEF TypeOK
    <3>3. Carrying(run[r], j) => queue'[j] > 0
      BY <1>0, <3>1 DEF Carrying, Active, Running, TypeOK
    <3>. QED BY <1>1, <3>1, <3>2, <3>3
  <2>6. CASE Acknowledge(r)
    <3>1. ToRetry(j) /\ queue' = queue
      BY <2>6 DEF Acknowledge, RunStep, ToRetry, catalog, jobs
    <3>2. \A s \in Slot : Carrying(run[s], j) => Carrying(run'[s], j)
      BY <2>6 DEF Acknowledge, RunStep, At, Carrying, Active, Running, TypeOK
    <3>. QED BY <1>0, <1>1, <3>1, <3>2
  <2>7. CASE CrashWorker(r)
    <3>1. /\ ToRetry(j) /\ run[r] # Idle /\ run' = [run EXCEPT ![r] = Idle]
          /\ queue' = IF run[r].inline THEN queue ELSE [queue EXCEPT ![run[r].job] = @ + 1]
      BY <2>7 DEF CrashWorker, ToRetry, catalog, jobs
    <3>2. queue'[j] >= queue[j] /\ (run[r].job = j /\ ~run[r].inline => queue'[j] > 0)
      BY <1>0, <2>1, <3>1 DEF TypeOK
    <3>3. \A s \in Slot : Carrying(run[s], j) => Carrying(run'[s], j) \/ queue'[j] > 0
      BY <3>1, <3>2 DEF Carrying, TypeOK
    <3>. QED BY <1>1, <3>1, <3>2, <3>3
  <2>. QED BY <1>5, <2>2, <2>3, <2>4, <2>5, <2>6, <2>7, StepKinds
<1>6. ASSUME NEW t \in Table, ChangeSource(t)
      PROVE  queue'[j] > 0 \/ Carries(j)' # {}
  <2>1. ToRetry(j) /\ run' = run /\ queue' = queue
    BY <1>6 DEF ChangeSource, ToRetry, catalog, jobs
  <2>. QED BY <1>0, <1>1, <2>1
<1>7. ASSUME NEW r \in Slot, Redeliver(r)
      PROVE  queue'[j] > 0 \/ Carries(j)' # {}
  <2>1. ToRetry(j) /\ run' = run /\ queue'[j] >= queue[j]
    BY <1>0, <1>7 DEF Redeliver, ToRetry, catalog, jobs, TypeOK
  <2>. QED BY <1>1, <2>1
<1>8. CASE UNCHANGED vars
  <2>1. ToRetry(j) /\ run' = run /\ queue' = queue
    BY <1>8 DEF vars, ToRetry
  <2>. QED BY <1>0, <1>1, <2>1
<1>. QED
  BY <1>2, <1>3, <1>4, <1>5, <1>6, <1>7, <1>8 DEF Next

-----------------------------------------------------------------------------
(* The inductive invariant: what every reachable state satisfies. *)
LEMMA Invariance == Spec => []IInv
<1>1. Init => IInv
  <2>1. Init => RowsExclusive
    BY DEF Init, RowsExclusive, Holds
  <2>. QED BY <2>1, InitType, InitSnapshot, InitRetry DEF IInv
<1>2. IInv /\ [Next]_vars => IInv'
  BY NextType, RowsStep, SnapshotStep, RetryStep, InlineStep, ServedStep DEF IInv
<1>. QED
  BY <1>1, <1>2, PTL DEF Spec

(* A job fails at most MAX_RETRIES times, and once more for each crash or  *)
(* redelivery.                                                           *)
THEOREM RetriesCorrect == Spec => []RetriesBounded
<1>1. IInv => RetriesBounded
  BY RetryBounds DEF IInv
<1>. QED
  BY <1>1, Invariance, PTL

(* A failure that is to be retried always has a message, or a run, unless a  *)
(* later run of the job was given up.                                        *)
THEOREM NotLost == Spec => []RetryNotLost
<1>1. IInv => RetryNotLost
  <2>. SUFFICES ASSUME IInv, NEW j \in Job, ToRetry(j)
                PROVE  queue[j] > 0 \/ \E r \in Slot : run[r] # Idle /\ run[r].job = j
    BY DEF RetryNotLost, ToRetry
  <2>1. queue[j] > 0 \/ Carries(j) # {}
    BY DEF IInv, ServedInv
  <2>. QED BY <2>1 DEF Carries, Carrying
<1>. QED
  BY <1>1, Invariance, PTL
=============================================================================
