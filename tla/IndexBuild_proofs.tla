---------------------------- MODULE IndexBuild_proofs ----------------------------
(***************************************************************************)
(* Proofs of the safety properties of IndexBuild, for any catalog, any     *)
(* builds with any keys, and any crashes, redeliveries and late writes.    *)
(*                                                                         *)
(* The argument has two halves.  KeyInv: the unique batch key makes the    *)
(* stages between the INSERT and the commit a critical section per key,    *)
(* and the key has no outcome while a build is in it.  DocsInv: nothing a  *)
(* build counts as indexed ever leaves the index, so that equal counts     *)
(* mean that every document is there.                                      *)
(***************************************************************************)
EXTENDS IndexBuild, FiniteSetTheorems, TLAPS

Holds(r) == run[r] # Idle /\ run[r].at \in Holding

HeldKeysOpen == \A r \in Slot : Holds(r) => outcome[run[r].key] = "none"

OneHolder ==
  \A r, s \in Slot : Holds(r) /\ Holds(s) /\ run[r].key = run[s].key => r = s

KeyInv == HeldKeysOpen /\ OneHolder /\ PointerPublished

\* no column without its table
Closed(docs) == \A d \in Doc \ Table : docs[d] # 0 => docs[Owner[d]] # 0

BuildDocs(b) ==
  /\ b.sent \subseteq Loaded(b.docs) /\ b.indexed \subseteq Loaded(b.docs)
  /\ \A d \in b.indexed : index[d] # 0
  /\ b.at \in {"taken", "loading", "columns"} => b.sent = {} /\ b.indexed = {}
  /\ b.at \in {"bulk", "publishing", "pointing"} => Closed(b.docs)
  /\ b.at \in {"publishing", "pointing"} => Loaded(b.docs) \subseteq b.indexed

DocsInv ==
  /\ \A r \in Slot : run[r] # Idle => BuildDocs(run[r])
  /\ \A w \in late : w[2] # 0
  /\ PublishedComplete

IInv == TypeOK /\ KeyInv /\ DocsInv

-----------------------------------------------------------------------------
(* Whatever ends a build leaves a free slot or a task to acknowledge. *)
LEMMA EndedType ==
  ASSUME NEW r \in Slot, run[r] \in Build
  PROVE  Ended(r) \in Build \cup {Idle}
<1>1. NoDocs \in Docs
  BY BoundsAssumption DEF NoDocs, Docs, Revision
<1>2. run[r].key \in Key
  BY DEF Build
<1>. QED
  BY <1>1, <1>2 DEF Ended, NewBuild, Build, Stage

(* Every step keeps the types.                                               *)
LEMMA TypeStep ==
  ASSUME TypeOK, [Next]_vars
  PROVE  TypeOK'
<1>. USE BoundsAssumption, DocAssumption
    DEF TypeOK, Docs, Revision, NoDocs, Build, Stage, Holding
<1>1. ASSUME NEW k \in Key, Dispatch(k) PROVE TypeOK'
  BY <1>1 DEF Dispatch, batches, counters
<1>2. ASSUME NEW r \in Slot, NEW k \in Key, RunInline(r, k) PROVE TypeOK'
  BY <1>2 DEF RunInline, NewBuild, batches, counters
<1>3. ASSUME NEW r \in Slot, NEW k \in Key, TakeTask(r, k) PROVE TypeOK'
  BY <1>3 DEF TakeTask, NewBuild, batches, counters
<1>4. ASSUME NEW r \in Slot, InsertBatch(r) PROVE TypeOK'
  <2>1. run[r] \in Build
    BY <1>4 DEF InsertBatch, At
  <2>2. [run[r] EXCEPT !.at = "loading"] \in Build /\ Ended(r) \in Build \cup {Idle}
    BY <2>1, EndedType
  <2>. QED
    BY <1>4, <2>2 DEF InsertBatch, BuildGoes, batches, counters
<1>5. ASSUME NEW r \in Slot, LoadTables(r) PROVE TypeOK'
  <2>1. PICK scope \in Scopes :
          BuildGoes(r, [run[r] EXCEPT !.at = "columns",
            !.docs = [d \in Doc |-> IF d \in scope THEN catalog[d] ELSE 0]])
    BY <1>5 DEF LoadTables
  <2>2. [d \in Doc |-> IF d \in scope THEN catalog[d] ELSE 0] \in Docs
    OBVIOUS
  <2>3. run[r] \in Build
    BY <1>5 DEF LoadTables, At
  <2>4. run' \in [Slot -> Build \cup {Idle}]
    BY <2>1, <2>2, <2>3 DEF BuildGoes
  <2>. QED
    BY <2>1, <2>4 DEF BuildGoes, batches, counters
<1>6. ASSUME NEW r \in Slot, LoadColumns(r) PROVE TypeOK'
  <2>. DEFINE docs == [d \in Doc |-> IF d \in Table THEN run[r].docs[d]
                            ELSE IF run[r].docs[Owner[d]] # 0 THEN catalog[d] ELSE 0]
  <2>1. run[r] \in Build /\ BuildGoes(r, [run[r] EXCEPT !.at = "bulk", !.docs = docs,
                                                      !.sent = Loaded(docs)])
    BY <1>6 DEF LoadColumns, SendBulk, At
  <2>2. docs \in Docs /\ Loaded(docs) \in SUBSET Doc
    BY <2>1 DEF Loaded
  <2>. HIDE DEF docs
  <2>3. run' \in [Slot -> Build \cup {Idle}]
    BY <2>1, <2>2 DEF BuildGoes
  <2>. QED
    BY <2>1, <2>3 DEF BuildGoes, batches, counters
<1>7. ASSUME NEW r \in Slot, BuildError(r) PROVE TypeOK'
  BY <1>7, ZenonT(60) DEF BuildError, BuildGoes, batches, counters
<1>8. ASSUME NEW r \in Slot, BulkError(r) PROVE TypeOK'
  <2>1. run[r] \in Build
    BY <1>8 DEF BulkError, At
  <2>2. run' \in [Slot -> Build \cup {Idle}]
    BY <1>8, <2>1 DEF BulkError
  <2>3. Unfinished(r) \subseteq Doc \X Revision
    BY <2>1 DEF Unfinished
  <2>. QED
    BY <1>8, <2>2, <2>3 DEF BulkError, batches, counters
<1>9. ASSUME NEW r \in Slot, UpsertPointer(r) PROVE TypeOK'
  BY <1>9, ZenonT(60) DEF UpsertPointer, BuildGoes, At, batches, counters
<1>10. ASSUME NEW r \in Slot, CommitPublished(r) PROVE TypeOK'
  <2>1. run[r] \in Build
    BY <1>10 DEF CommitPublished, At
  <2>2. Ended(r) \in Build \cup {Idle}
    BY <2>1, EndedType
  <2>3. run' \in [Slot -> Build \cup {Idle}]
    BY <1>10, <2>2 DEF CommitPublished
  <2>4. content' \in [Key -> Docs] /\ outcome' \in [Key -> {"none", "PUBLISHED", "FAILED"}]
        /\ pointer' \in Key \cup {NoKey}
    BY <1>10, <2>1 DEF CommitPublished
  <2>. QED
    BY <1>10, <2>3, <2>4 DEF CommitPublished, counters
<1>11. ASSUME NEW r \in Slot, CommitFailed(r) PROVE TypeOK'
  <2>1. run[r] \in Build
    BY <1>11 DEF CommitFailed, At
  <2>2. Ended(r) \in Build \cup {Idle}
    BY <2>1, EndedType
  <2>3. run' \in [Slot -> Build \cup {Idle}]
    BY <1>11, <2>2 DEF CommitFailed
  <2>4. outcome' \in [Key -> {"none", "PUBLISHED", "FAILED"}]
    BY <1>11, <2>1 DEF CommitFailed
  <2>. QED
    BY <1>11, <2>3, <2>4 DEF CommitFailed, counters
<1>12. ASSUME NEW r \in Slot, Acknowledge(r) PROVE TypeOK'
  BY <1>12 DEF Acknowledge, BuildGoes, At, batches, counters
<1>13. ASSUME NEW r \in Slot, Crash(r) PROVE TypeOK'
  BY <1>13 DEF Crash, Unfinished, batches, counters
<1>14. ASSUME NEW r \in Slot, Redeliver(r) PROVE TypeOK'
  BY <1>14 DEF Redeliver, batches, counters
<1>15. ASSUME NEW r \in Slot, NEW d \in Doc, IndexDoc(r, d) PROVE TypeOK'
  <2>1. run[r] \in Build
    BY <1>15 DEF IndexDoc, At
  <2>2. run' \in [Slot -> Build \cup {Idle}]
    BY <1>15, <2>1, ZenonT(60) DEF IndexDoc
  <2>3. index' \in Docs
    BY <1>15, <2>1 DEF IndexDoc
  <2>. QED
    BY <1>15, <2>2, <2>3 DEF IndexDoc, batches, counters
<1>16. ASSUME NEW r \in Slot, NEW d \in Doc, RefuseDoc(r, d) PROVE TypeOK'
  BY <1>16, ZenonT(60) DEF RefuseDoc, BuildGoes, At, batches, counters
<1>17. ASSUME NEW r \in Slot, NEW milvus, CompareCounts(r, milvus) PROVE TypeOK'
  <2>1. run[r] \in Build
    BY <1>17 DEF CompareCounts, Replied, At
  <2>2. PICK stage \in Stage : run' = [run EXCEPT ![r] = [run[r] EXCEPT !.at = stage]]
    BY <1>17 DEF CompareCounts, BuildGoes
  <2>3. [run[r] EXCEPT !.at = stage] \in Build
    BY <2>1
  <2>4. run' \in [Slot -> Build \cup {Idle}]
    BY <2>2, <2>3
  <2>. QED
    BY <1>17, <2>4 DEF CompareCounts, BuildGoes, batches, counters
<1>18. ASSUME NEW w \in late, IndexLate(w) PROVE TypeOK'
  BY <1>18 DEF IndexLate, batches, counters
<1>19. ASSUME NEW d \in Doc, ChangeCatalog(d) PROVE TypeOK'
  BY <1>19 DEF ChangeCatalog, batches, counters
<1>20. CASE UNCHANGED vars
  BY <1>20 DEF vars
<1>. QED
  BY <1>1, <1>2, <1>3, <1>4, <1>5, <1>6, <1>7, <1>8, <1>9, <1>10, <1>11,
     <1>12, <1>13, <1>14, <1>15, <1>16, <1>17, <1>18, <1>19, <1>20
     DEF Next, BuildStep

(* A build enters the critical section of its key when no other is in it and *)
(* the key has no outcome; only the commit that leaves it gives it one.      *)
LEMMA KeyStep ==
  ASSUME TypeOK, KeyInv, [Next]_vars
  PROVE  KeyInv'
<1>. USE MarksAssumption
    DEF TypeOK, KeyInv, HeldKeysOpen, OneHolder, PointerPublished, Holds, Build, Stage, Holding
<1>1. ASSUME NEW k \in Key, Dispatch(k) PROVE KeyInv'
  BY <1>1 DEF Dispatch, batches, counters
<1>2. ASSUME NEW r \in Slot, NEW k \in Key, RunInline(r, k) PROVE KeyInv'
  BY <1>2 DEF RunInline, NewBuild, batches, counters
<1>3. ASSUME NEW r \in Slot, NEW k \in Key, TakeTask(r, k) PROVE KeyInv'
  BY <1>3 DEF TakeTask, NewBuild, batches, counters
<1>4. ASSUME NEW r \in Slot, InsertBatch(r) PROVE KeyInv'
  BY <1>4 DEF InsertBatch, BuildGoes, At, KeyLocked, Ended, NewBuild, batches, counters
<1>5. ASSUME NEW r \in Slot, LoadTables(r) PROVE KeyInv'
  <2>1. PICK scope \in Scopes :
          BuildGoes(r, [run[r] EXCEPT !.at = "columns",
            !.docs = [d \in Doc |-> IF d \in scope THEN catalog[d] ELSE 0]])
    BY <1>5 DEF LoadTables
  <2>. DEFINE docs == [d \in Doc |-> IF d \in scope THEN catalog[d] ELSE 0]
  <2>2. run' = [run EXCEPT ![r] = [run[r] EXCEPT !.at = "columns", !.docs = docs]]
    BY <2>1 DEF BuildGoes
  <2>. HIDE DEF docs
  <2>3. Holds(r) /\ run'[r].key = run[r].key /\ \A s \in Slot \ {r} : run'[s] = run[s]
    BY <1>5, <2>2 DEF LoadTables, At
  <2>4. UNCHANGED <<outcome, pointer>>
    BY <2>1 DEF BuildGoes, batches
  <2>5. \A s \in Slot : Holds(s)' => Holds(s) /\ run'[s].key = run[s].key
    BY <2>3
  <2>6. HeldKeysOpen' /\ OneHolder'
    BY <2>4, <2>5
  <2>. QED
    BY <2>4, <2>6
<1>6. ASSUME NEW r \in Slot, LoadColumns(r) PROVE KeyInv'
  <2>. DEFINE docs == [d \in Doc |-> IF d \in Table THEN run[r].docs[d]
                            ELSE IF run[r].docs[Owner[d]] # 0 THEN catalog[d] ELSE 0]
  <2>1. BuildGoes(r, [run[r] EXCEPT !.at = "bulk", !.docs = docs, !.sent = Loaded(docs)])
    BY <1>6 DEF LoadColumns, SendBulk
  <2>. HIDE DEF docs
  <2>2. Holds(r) /\ run'[r].key = run[r].key /\ \A s \in Slot \ {r} : run'[s] = run[s]
    BY <1>6, <2>1 DEF LoadColumns, At, BuildGoes
  <2>. QED
    BY <2>1, <2>2 DEF BuildGoes, batches
<1>7. ASSUME NEW r \in Slot, BuildError(r) PROVE KeyInv'
  BY <1>7 DEF BuildError, BuildGoes, batches, counters
<1>8. ASSUME NEW r \in Slot, BulkError(r) PROVE KeyInv'
  BY <1>8 DEF BulkError, At, Unfinished, batches, counters
<1>9. ASSUME NEW r \in Slot, UpsertPointer(r) PROVE KeyInv'
  BY <1>9 DEF UpsertPointer, BuildGoes, At, batches, counters
<1>10. ASSUME NEW r \in Slot, CommitPublished(r) PROVE KeyInv'
  BY <1>10 DEF CommitPublished, At, Ended, NewBuild, batches, counters
<1>11. ASSUME NEW r \in Slot, CommitFailed(r) PROVE KeyInv'
  BY <1>11 DEF CommitFailed, At, Ended, NewBuild, batches, counters
<1>12. ASSUME NEW r \in Slot, Acknowledge(r) PROVE KeyInv'
  BY <1>12 DEF Acknowledge, BuildGoes, At, batches, counters
<1>13. ASSUME NEW r \in Slot, Crash(r) PROVE KeyInv'
  BY <1>13 DEF Crash, Unfinished, batches, counters
<1>14. ASSUME NEW r \in Slot, Redeliver(r) PROVE KeyInv'
  BY <1>14 DEF Redeliver, batches, counters
<1>15. ASSUME NEW r \in Slot, NEW d \in Doc, IndexDoc(r, d) PROVE KeyInv'
  BY <1>15 DEF IndexDoc, At, batches, counters
<1>16. ASSUME NEW r \in Slot, NEW d \in Doc, RefuseDoc(r, d) PROVE KeyInv'
  BY <1>16 DEF RefuseDoc, BuildGoes, At, batches, counters
<1>17. ASSUME NEW r \in Slot, NEW milvus, CompareCounts(r, milvus) PROVE KeyInv'
  BY <1>17 DEF CompareCounts, Replied, BuildGoes, At, batches, counters
<1>18. ASSUME NEW w \in late, IndexLate(w) PROVE KeyInv'
  BY <1>18 DEF IndexLate, batches, counters
<1>19. ASSUME NEW d \in Doc, ChangeCatalog(d) PROVE KeyInv'
  BY <1>19 DEF ChangeCatalog, batches, counters
<1>20. CASE UNCHANGED vars
  BY <1>20, SMTT(30) DEF vars
<1>. QED
  BY <1>1, <1>2, <1>3, <1>4, <1>5, <1>6, <1>7, <1>8, <1>9, <1>10, <1>11,
     <1>12, <1>13, <1>14, <1>15, <1>16, <1>17, <1>18, <1>19, <1>20
     DEF Next, BuildStep

(* Documents are only ever replaced by documents, so what a build has        *)
(* indexed stays indexed, whoever else writes.                               *)
LEMMA DocsStep ==
  ASSUME TypeOK, DocsInv, [Next]_vars
  PROVE  DocsInv'
<1>. USE DocAssumption, DocFiniteAssumption
    DEF TypeOK, DocsInv, BuildDocs, Closed, PublishedComplete, Loaded, Docs, NoDocs, Build, Stage, Holding
<1>1. ASSUME NEW k \in Key, Dispatch(k) PROVE DocsInv'
  BY <1>1 DEF Dispatch, batches, counters
<1>2. ASSUME NEW r \in Slot, NEW k \in Key, RunInline(r, k) PROVE DocsInv'
  BY <1>2 DEF RunInline, NewBuild, batches, counters
<1>3. ASSUME NEW r \in Slot, NEW k \in Key, TakeTask(r, k) PROVE DocsInv'
  BY <1>3 DEF TakeTask, NewBuild, batches, counters
<1>4. ASSUME NEW r \in Slot, InsertBatch(r) PROVE DocsInv'
  BY <1>4 DEF InsertBatch, BuildGoes, At, KeyLocked, Ended, NewBuild, batches, counters
<1>5. ASSUME NEW r \in Slot, LoadTables(r) PROVE DocsInv'
  <2>1. PICK scope \in Scopes :
          BuildGoes(r, [run[r] EXCEPT !.at = "columns",
            !.docs = [d \in Doc |-> IF d \in scope THEN catalog[d] ELSE 0]])
    BY <1>5 DEF LoadTables
  <2>. DEFINE docs == [d \in Doc |-> IF d \in scope THEN catalog[d] ELSE 0]
  <2>2. run' = [run EXCEPT ![r] = [run[r] EXCEPT !.at = "columns", !.docs = docs]]
    BY <2>1 DEF BuildGoes
  <2>. HIDE DEF docs
  <2>3. /\ \A s \in Slot \ {r} : run'[s] = run[s]
        /\ run'[r].at = "columns" /\ run'[r].sent = {} /\ run'[r].indexed = {}
    BY <1>5, <2>2 DEF LoadTables, At
  <2>4. UNCHANGED <<index, late, outcome, content>>
    BY <2>1 DEF BuildGoes, batches
  <2>5. \A s \in Slot : run'[s] # Idle => BuildDocs(run[s])'
    BY <2>3, <2>4
  <2>. QED
    BY <2>4, <2>5
<1>6. ASSUME NEW r \in Slot, LoadColumns(r) PROVE DocsInv'
  <2>. DEFINE docs == [d \in Doc |-> IF d \in Table THEN run[r].docs[d]
                            ELSE IF run[r].docs[Owner[d]] # 0 THEN catalog[d] ELSE 0]
  <2>1. BuildGoes(r, [run[r] EXCEPT !.at = "bulk", !.docs = docs, !.sent = Loaded(docs)])
    BY <1>6 DEF LoadColumns, SendBulk
  <2>2. Closed(docs)
    OBVIOUS
  <2>. HIDE DEF docs
  <2>3. /\ \A s \in Slot \ {r} : run'[s] = run[s]
        /\ run'[r].at = "bulk" /\ run'[r].docs = docs
        /\ run'[r].sent = Loaded(docs) /\ run'[r].indexed = {}
    BY <1>6, <2>1 DEF LoadColumns, At, BuildGoes
  <2>4. UNCHANGED <<index, late, outcome, content>>
    BY <2>1 DEF BuildGoes, batches
  <2>5. \A s \in Slot : run'[s] # Idle => BuildDocs(run[s])'
    BY <2>2, <2>3, <2>4
  <2>. QED
    BY <2>4, <2>5
<1>7. ASSUME NEW r \in Slot, BuildError(r) PROVE DocsInv'
  BY <1>7 DEF BuildError, BuildGoes, batches, counters
<1>8. ASSUME NEW r \in Slot, BulkError(r) PROVE DocsInv'
  BY <1>8 DEF BulkError, At, Unfinished, batches, counters
<1>9. ASSUME NEW r \in Slot, UpsertPointer(r) PROVE DocsInv'
  BY <1>9 DEF UpsertPointer, BuildGoes, At, batches, counters
<1>10. ASSUME NEW r \in Slot, CommitPublished(r) PROVE DocsInv'
  BY <1>10 DEF CommitPublished, At, Ended, NewBuild, batches, counters
<1>11. ASSUME NEW r \in Slot, CommitFailed(r) PROVE DocsInv'
  BY <1>11 DEF CommitFailed, At, Ended, NewBuild, batches, counters
<1>12. ASSUME NEW r \in Slot, Acknowledge(r) PROVE DocsInv'
  BY <1>12 DEF Acknowledge, BuildGoes, At, batches, counters
<1>13. ASSUME NEW r \in Slot, Crash(r) PROVE DocsInv'
  BY <1>13 DEF Crash, Unfinished, batches, counters
<1>14. ASSUME NEW r \in Slot, Redeliver(r) PROVE DocsInv'
  BY <1>14 DEF Redeliver, batches, counters
<1>15. ASSUME NEW r \in Slot, NEW d \in Doc, IndexDoc(r, d) PROVE DocsInv'
  BY <1>15 DEF IndexDoc, At, batches, counters
<1>16. ASSUME NEW r \in Slot, NEW d \in Doc, RefuseDoc(r, d) PROVE DocsInv'
  BY <1>16 DEF RefuseDoc, BuildGoes, At, batches, counters
<1>17. ASSUME NEW r \in Slot, NEW milvus, CompareCounts(r, milvus) PROVE DocsInv'
  <2>1. /\ run[r] # Idle /\ run[r].at = "bulk" /\ run[r].sent = {}
        /\ run[r] \in Build /\ BuildDocs(run[r])
        /\ UNCHANGED <<index, late, outcome, content>>
    BY <1>17 DEF CompareCounts, Replied, BuildGoes, At, batches
  <2>2. PICK stage \in {"publishing", "failing"} :
          /\ run' = [run EXCEPT ![r] = [run[r] EXCEPT !.at = stage]]
          /\ stage = "publishing" =>
               Cardinality(run[r].indexed) = Cardinality(Loaded(run[r].docs))
    BY <1>17 DEF CompareCounts, BuildGoes
  <2>3. run[r].indexed = Loaded(run[r].docs) \/ stage = "failing"
    <3>1. IsFiniteSet(Loaded(run[r].docs)) /\ run[r].indexed \in SUBSET Loaded(run[r].docs)
      BY <2>1, FS_Subset
    <3>. QED
      BY ONLY <2>2, <3>1, FS_Subset
  <2>4. BuildDocs([run[r] EXCEPT !.at = stage])
    BY <2>1, <2>3
  <2>5. ASSUME NEW s \in Slot, run'[s] # Idle PROVE BuildDocs(run[s])'
    <3>1. CASE s = r
      <4>1. run'[s] = [run[r] EXCEPT !.at = stage]
        BY <2>2, <3>1
      <4>. QED
        BY <2>1, <2>4, <4>1
    <3>2. CASE s # r
      <4>1. run'[s] = run[s]
        BY <2>2, <3>2
      <4>. QED
        BY <2>1, <2>5, <4>1
    <3>. QED
      BY <3>1, <3>2
  <2>6. (\A w \in late : w[2] # 0)' /\ PublishedComplete'
    BY <2>1
  <2>. QED
    BY <2>5, <2>6
<1>18. ASSUME NEW w \in late, IndexLate(w) PROVE DocsInv'
  BY <1>18 DEF IndexLate, batches, counters
<1>19. ASSUME NEW d \in Doc, ChangeCatalog(d) PROVE DocsInv'
  BY <1>19 DEF ChangeCatalog, batches, counters
<1>20. CASE UNCHANGED vars
  BY <1>20 DEF vars
<1>. QED
  BY <1>1, <1>2, <1>3, <1>4, <1>5, <1>6, <1>7, <1>8, <1>9, <1>10, <1>11,
     <1>12, <1>13, <1>14, <1>15, <1>16, <1>17, <1>18, <1>19, <1>20
     DEF Next, BuildStep

(* The initial states satisfy the invariant.                                 *)
LEMMA Initially == Init => IInv
<1>. SUFFICES ASSUME Init PROVE IInv
  OBVIOUS
<1>1. NoDocs \in Docs /\ [d \in Doc |-> 1] \in Docs
  BY BoundsAssumption DEF NoDocs, Docs, Revision
<1>2. TypeOK
  BY <1>1, BoundsAssumption DEF Init, TypeOK
<1>3. KeyInv
  BY DEF Init, KeyInv, HeldKeysOpen, OneHolder, PointerPublished, Holds
<1>4. DocsInv
  BY DEF Init, DocsInv, PublishedComplete
<1>. QED
  BY <1>2, <1>3, <1>4 DEF IInv

-----------------------------------------------------------------------------
(* The inductive invariant: types, one build per key in its critical         *)
(* section, and what a build knows of the documents it has indexed.          *)
THEOREM Invariance == Spec => []IInv
<1>1. IInv /\ [Next]_vars => IInv'
  BY TypeStep, KeyStep, DocsStep DEF IInv
<1>. QED
  BY Initially, <1>1, PTL DEF Spec

(* Rows, documents and builds always have the types of their columns and     *)
(* fields.                                                                   *)
THEOREM TypeCorrect == Spec => []TypeOK
<1>1. IInv => TypeOK
  BY DEF IInv
<1>. QED
  BY Invariance, <1>1, PTL

(* The pointer only ever names a batch that was published.                   *)
THEOREM PointerValid == Spec => []PointerPublished
<1>1. IInv => PointerPublished
  BY DEF IInv, KeyInv
<1>. QED
  BY Invariance, <1>1, PTL

(* Each document of a published batch is in the index, and each column with  *)
(* its table, for any catalog and however it changes.                        *)
THEOREM BatchesComplete == Spec => []PublishedComplete
<1>1. IInv => PublishedComplete
  BY DEF IInv, DocsInv
<1>. QED
  BY Invariance, <1>1, PTL

(* A key that has an outcome keeps it, and the pointer only moves to a key   *)
(* that had none: a build that commits is in the critical section of its     *)
(* key, in which the key has no outcome.                                     *)
THEOREM OutcomeFinal == Spec => OneOutcomePerKey
<1>. DEFINE Final ==
       /\ \A k \in Key : outcome[k] # "none" =>
            outcome'[k] = outcome[k] /\ content'[k] = content[k]
       /\ pointer' # pointer => outcome[pointer'] = "none"
<1>1. ASSUME IInv, NEW r \in Slot, CommitPublished(r) \/ CommitFailed(r) PROVE Final
  <2>1. outcome[run[r].key] = "none" /\ run[r].key \in Key
    BY <1>1, SMTT(30) DEF IInv, TypeOK, KeyInv, HeldKeysOpen, Holds, CommitPublished, CommitFailed, At,
                Holding, Build
  <2>. QED
    BY <1>1, <2>1 DEF IInv, TypeOK, CommitPublished, CommitFailed
<1>2. ASSUME [Next]_vars, \A r \in Slot : ~CommitPublished(r) /\ ~CommitFailed(r)
      PROVE  UNCHANGED <<outcome, content, pointer>>
  BY <1>2, ZenonT(60) DEF Next, vars, BuildStep, batches, BuildGoes, Dispatch, RunInline, TakeTask,
              InsertBatch, LoadTables, LoadColumns, SendBulk, BuildError, BulkError, IndexDoc,
              RefuseDoc, CompareCounts, UpsertPointer, Acknowledge, Crash, Redeliver, IndexLate,
              ChangeCatalog
<1>3. IInv /\ [Next]_vars => [Final]_vars
  BY <1>1, <1>2
<1>. QED
  BY Invariance, <1>3, PTL DEF Spec, OneOutcomePerKey
=============================================================================
