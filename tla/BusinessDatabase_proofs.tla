------------------------- MODULE BusinessDatabase_proofs -------------------------
(***************************************************************************)
(* Proofs of the safety properties of BusinessDatabase, for any number of  *)
(* overlapping runs of the migration and of the generator, any files and   *)
(* any profiles.                                                           *)
(*                                                                         *)
(* The stages from the lock to the commit are a critical section: what a   *)
(* run has read of its version there stays true until it commits.  Files   *)
(* are numbered without gaps and a run takes them in order, so whatever    *)
(* is below a file it still has to apply is recorded, or before it in its  *)
(* list, or in its hands.                                                  *)
(*                                                                         *)
(* The generator is never refused, whatever its profile: a row is known by *)
(* the table and the thing it is made for (its origin), keys are one to    *)
(* one in the origins of a table, and a reference is to a fixture, or to   *)
(* an earlier table of the same batch.  The gates sum and count rows; they *)
(* are compared with sums and counts of origins, along bijections.         *)
(***************************************************************************)
EXTENDS BusinessDatabase, Algorithms_proofs

Holding == {"check", "execute", "commit"}
InHand == {"lock"} \cup Holding
Recorded(v) == record[v] # 0

\* what a run knows of the lock, of the version in its hands, and of its list
LockOwned(m) == migrator[m].stage \in Holding <=> lock = m

VersionReady(m) ==
  /\ migrator[m].stage \in InHand =>
       /\ migrator[m].version \in Version /\ migrator[m].read # 0
       /\ \A u \in 1..(migrator[m].version - 1) : Recorded(u)
  /\ migrator[m].stage \in {"execute", "commit"} => ~Recorded(migrator[m].version)
  /\ migrator[m].pending = IF migrator[m].stage = "commit" THEN 1 ELSE 0

ListOrdered(m) ==
  \A v \in migrator[m].todo :
    /\ file[v] # 0
    /\ \A u \in 1..(v - 1) :
         \/ u \in migrator[m].todo
         \/ Recorded(u)
         \/ migrator[m].stage \in InHand /\ u = migrator[m].version

SeenGranted(m) ==
  /\ \A v \in migrator[m].seen : Recorded(v)
  /\ migrator[m].stage \in {"default", "done"} => migrator[m].seen \subseteq granted

MigratorInv(m) == LockOwned(m) /\ VersionReady(m) /\ ListOrdered(m) /\ SeenGranted(m)

FilesContiguous == \A v \in Version : file[v] # 0 => \A u \in 1..(v - 1) : file[u] # 0

SchemaInv ==
  /\ FilesContiguous /\ MigrationAtomic /\ MigrationsInOrder
  /\ \A m \in Migrator : MigratorInv(m)

\* a seed copies every batch before it is validated
SeederInv(s) ==
  /\ seeder[s].stage \in {"truncate", "copy", "validate", "commit"} => seeder[s].profile \in Profiles
  /\ seeder[s].stage \in {"validate", "commit"} =>
       seeder[s].chunks = NumBatches(seeder[s].profile) + 1

DataInv == SnapshotWhole /\ \A s \in Seeder : SeederInv(s)

IInv == TypeOK /\ SchemaInv /\ DataInv

-----------------------------------------------------------------------------
(* An ended run has the type of a run. *)
LEMMA EndedType ==
  ASSUME NEW stage \in MigratorStage, NEW seen \in SUBSET Version
  PROVE  /\ Ended(stage, seen) \in MigratorRun
         /\ Ended(stage, seen).stage = stage /\ Ended(stage, seen).seen = seen
         /\ Ended(stage, seen).todo = {} /\ Ended(stage, seen).pending = 0
<1>1. 0 \in Edition
  BY BoundsAssumption DEF Edition
<1>. QED
  BY <1>1 DEF Ended, MigratorRun

\* names of the stages, kept apart so that no proof enumerates them
StagesNamed ==
  {"idle", "new role", "alter role", "connect", "next", "lock", "check", "execute",
   "commit", "grant", "default", "done", "failed"} \subseteq MigratorStage

(* What a step of the migration makes of its run is a run. *)
LEMMA MigratorType ==
  ASSUME TypeOK, NEW m \in Migrator, VersionReady(m), MigratorStep(m) \/ StopMigrator(m)
  PROVE  TypeOK'
<1>. DEFINE r == migrator[m]
<1>1. /\ r.todo \in SUBSET Version /\ r.version \in Version \cup {0} /\ r.read \in Edition
      /\ r.seen \in SUBSET Version /\ r \in MigratorRun
      /\ r.stage \in InHand => r.version \in Version
  BY DEF TypeOK, MigratorRun, VersionReady
<1>2. StagesNamed /\ {} \in SUBSET Version
  BY DEF StagesNamed, MigratorStage
<1>3. ASSUME NEW run \in MigratorRun, Become(m, run)
      PROVE  migrator' \in [Migrator -> MigratorRun]
  BY <1>3 DEF TypeOK, Become
<1>4. ASSUME NEW stage \in MigratorStage, Go(m, stage)
      PROVE  migrator' \in [Migrator -> MigratorRun]
  <2>1. [r EXCEPT !.stage = stage] \in MigratorRun
    BY <1>1 DEF MigratorRun
  <2>. QED BY <1>3, <1>4, <2>1 DEF Go
<1>5. CASE LookForRole(m)
  <2>1. PICK stage \in MigratorStage : Go(m, stage)
    BY <1>2, <1>5 DEF LookForRole, StagesNamed
  <2>. QED BY <1>4, <1>5, <2>1 DEF LookForRole, TypeOK, reader, tables
<1>6. CASE CreateRole(m)
  <2>1. migrator' \in [Migrator -> MigratorRun]
    BY <1>2, <1>3, <1>4, <1>6, EndedType DEF CreateRole, StagesNamed
  <2>. QED BY <1>6, <2>1 DEF CreateRole, TypeOK, tables
<1>7. CASE AlterRole(m)
  BY <1>2, <1>4, <1>7 DEF AlterRole, StagesNamed, TypeOK, tables
<1>8. CASE ListFiles(m)
  <2>. DEFINE listed == {v \in Version : file[v] # 0}
  <2>1. [r EXCEPT !.stage = "next", !.todo = listed] \in MigratorRun
    <3>1. listed \in SUBSET Version /\ "next" \in MigratorStage
      BY <1>2 DEF StagesNamed
    <3>. HIDE DEF listed
    <3>. QED BY <1>1, <3>1 DEF MigratorRun
  <2>2. migrator' \in [Migrator -> MigratorRun]
    BY <1>3, <1>8, <2>1 DEF ListFiles
  <2>. QED BY <1>8, <2>2 DEF ListFiles, TypeOK, reader, tables
<1>9. CASE ReadFile(m)
  <2>1. PICK v \in r.todo :
          Become(m, [r EXCEPT !.stage = "lock", !.todo = @ \ {v}, !.version = v, !.read = file[v]])
    BY <1>9 DEF ReadFile
  <2>2. v \in Version /\ file[v] \in Edition /\ r.todo \ {v} \in SUBSET Version
    BY <1>1 DEF TypeOK
  <2>3. [r EXCEPT !.stage = "lock", !.todo = @ \ {v}, !.version = v, !.read = file[v]]
          \in MigratorRun
    BY <1>1, <1>2, <2>2 DEF MigratorRun, StagesNamed
  <2>. QED BY <1>3, <1>9, <2>1, <2>3 DEF ReadFile, TypeOK, reader, tables
<1>10. CASE TakeLock(m)
  BY <1>2, <1>4, <1>10 DEF TakeLock, StagesNamed, TypeOK, reader, tables
<1>11. CASE CheckVersion(m)
  <2>1. [r EXCEPT !.stage = "next", !.seen = @ \cup {r.version}] \in MigratorRun
    <3>1. r.seen \cup {r.version} \in SUBSET Version
      BY <1>1, <1>11 DEF CheckVersion, At, InHand, Holding
    <3>. QED BY <1>1, <1>2, <3>1 DEF MigratorRun, StagesNamed
  <2>2. migrator' \in [Migrator -> MigratorRun]
    BY <1>2, <1>3, <1>4, <1>11, <2>1, EndedType DEF CheckVersion, StagesNamed
  <2>. QED BY <1>11, <2>2 DEF CheckVersion, TypeOK, reader, tables
<1>12. CASE Execute(m)
  <2>1. [r EXCEPT !.stage = "commit", !.pending = 1, !.auto = defaults] \in MigratorRun
    BY <1>1, <1>2 DEF TypeOK, MigratorRun, StagesNamed
  <2>. QED BY <1>3, <1>12, <2>1 DEF Execute, TypeOK, reader, tables
<1>13. CASE CommitVersion(m)
  <2>1. [r EXCEPT !.stage = "next", !.seen = @ \cup {r.version}, !.pending = 0, !.auto = FALSE]
          \in MigratorRun
    <3>1. r.seen \cup {r.version} \in SUBSET Version
      BY <1>1, <1>13 DEF CommitVersion, At, InHand, Holding
    <3>. QED BY <1>1, <1>2, <3>1 DEF MigratorRun, StagesNamed
  <2>2. r.version \in Version /\ r.pending \in Nat
    BY <1>1, <1>13 DEF CommitVersion, At, InHand, Holding, MigratorRun
  <2>3. migrator' \in [Migrator -> MigratorRun]
    BY <1>3, <1>13, <2>1 DEF CommitVersion
  <2>. QED BY <1>1, <1>13, <2>2, <2>3 DEF CommitVersion, TypeOK, tables
<1>14. CASE NoMoreFiles(m)
  BY <1>2, <1>4, <1>14 DEF NoMoreFiles, StagesNamed, TypeOK, reader, tables
<1>15. CASE GrantTables(m)
  BY <1>2, <1>4, <1>15 DEF GrantTables, StagesNamed, TypeOK, tables
<1>16. CASE AlterDefaults(m)
  <2>1. Ended("done", r.seen) \in MigratorRun
    BY <1>1, <1>2, EndedType DEF StagesNamed
  <2>. QED BY <1>3, <1>16, <2>1 DEF AlterDefaults, TypeOK, tables
<1>17. CASE StopMigrator(m)
  <2>1. Ended("failed", {}) \in MigratorRun
    BY <1>2, EndedType DEF StagesNamed
  <2>. QED BY <1>3, <1>17, <2>1 DEF StopMigrator, TypeOK, reader, tables
<1>. QED
  BY <1>5, <1>6, <1>7, <1>8, <1>9, <1>10, <1>11, <1>12, <1>13, <1>14, <1>15, <1>16, <1>17
  DEF MigratorStep

(* Every other step keeps the types. *)
LEMMA OtherType ==
  ASSUME TypeOK,
         \/ \E s \in Seeder : SeederStep(s) \/ StopSeeder(s) \/ \E p \in Profiles : StartSeed(s, p)
         \/ \E v \in Version : AddFile(v) \/ RewriteFile(v)
         \/ UNCHANGED vars
  PROVE  TypeOK'
<1>1. ASSUME NEW s \in Seeder, NEW p \in Profiles, StartSeed(s, p) PROVE TypeOK'
  <2>1. /\ [stage |-> "truncate", profile |-> p, chunks |-> 0] \in SeederRun
        /\ [NewSeeder EXCEPT !.stage = "failed"] \in SeederRun
    BY DEF NewSeeder, SeederRun, SeederStage
  <2>. QED BY <1>1, <2>1 DEF StartSeed, TypeOK, schema
<1>2. ASSUME NEW s \in Seeder, Truncate(s) PROVE TypeOK'
  BY <1>2 DEF Truncate, TypeOK, SeederRun, SeederStage, schema
<1>3. ASSUME NEW s \in Seeder, CopyChunk(s) PROVE TypeOK'
  <2>. DEFINE next == IF seeder[s].chunks = NumBatches(seeder[s].profile) THEN "validate" ELSE "copy"
  <2>1. next \in SeederStage
    BY DEF SeederStage
  <2>2. seeder' = [seeder EXCEPT ![s] = [seeder[s] EXCEPT !.chunks = @ + 1, !.stage = next]]
    BY <1>3 DEF CopyChunk
  <2>. HIDE DEF next
  <2>3. seeder[s] \in SeederRun /\ seeder[s].chunks + 1 \in Nat
    BY DEF TypeOK, SeederRun
  <2>4. [seeder[s] EXCEPT !.chunks = @ + 1, !.stage = next] \in SeederRun
    BY <2>1, <2>3 DEF SeederRun
  <2>5. seeder' \in [Seeder -> SeederRun]
    BY <2>2, <2>4 DEF TypeOK
  <2>. QED BY <1>3, <2>5 DEF CopyChunk, TypeOK, schema
<1>4. ASSUME NEW s \in Seeder, Validate(s) PROVE TypeOK'
  BY <1>4 DEF Validate, TypeOK, SeederRun, SeederStage, schema
<1>5. ASSUME NEW s \in Seeder, CommitSeed(s) PROVE TypeOK'
  <2>1. [NewSeeder EXCEPT !.stage = "done"] \in SeederRun
    BY DEF NewSeeder, SeederRun, SeederStage
  <2>2. seeder[s].profile \in Profiles \cup {NoProfile} /\ seeder[s].chunks \in Nat
    BY DEF TypeOK, SeederRun
  <2>3. data' \in [profile : Profiles \cup {NoProfile}, chunks : Nat]
    BY <1>5, <2>2 DEF CommitSeed
  <2>4. datasetRun' \in Profiles \cup {NoProfile} /\ tableLock' \in Seeder \cup {Nobody}
    BY <1>5, <2>2 DEF CommitSeed
  <2>5. seeder' \in [Seeder -> SeederRun]
    BY <1>5, <2>1 DEF CommitSeed, TypeOK
  <2>. QED BY <1>5, <2>3, <2>4, <2>5 DEF CommitSeed, TypeOK, schema
<1>6. ASSUME NEW s \in Seeder, StopSeeder(s) PROVE TypeOK'
  <2>1. [NewSeeder EXCEPT !.stage = "failed"] \in SeederRun
    BY DEF NewSeeder, SeederRun, SeederStage
  <2>. QED BY <1>6, <2>1 DEF StopSeeder, TypeOK, schema
<1>7. ASSUME NEW v \in Version, AddFile(v) \/ RewriteFile(v) PROVE TypeOK'
  <2>1. file' \in [Version -> Edition]
    BY <1>7, BoundsAssumption DEF AddFile, RewriteFile, TypeOK, Edition
  <2>. QED BY <1>7, <2>1 DEF AddFile, RewriteFile, TypeOK, reader, tables
<1>8. CASE UNCHANGED vars
  BY <1>8 DEF TypeOK, vars, schema, tables
<1>. QED
  BY <1>1, <1>2, <1>3, <1>4, <1>5, <1>6, <1>7, <1>8 DEF SeederStep

-----------------------------------------------------------------------------
(* A step of another run leaves what a run knows true, if it respects the   *)
(* lock and only adds versions, files and grants. *)
LEMMA OtherRun ==
  ASSUME TypeOK, NEW n \in Migrator, MigratorInv(n),
         migrator'[n] = migrator[n],
         (lock' = n) <=> (lock = n),
         \A v \in Version : Recorded(v) => Recorded(v)',
         migrator[n].stage \in {"execute", "commit"} => record' = record,
         \A v \in Version : file[v] # 0 => file'[v] # 0,
         granted \subseteq granted'
  PROVE  MigratorInv(n)'
<1>1. migrator[n].todo \subseteq Version /\ migrator[n].seen \subseteq Version
  BY DEF TypeOK, MigratorRun
<1>2. LockOwned(n)'
  BY DEF MigratorInv, LockOwned
<1>3. VersionReady(n)'
  <2>1. CASE migrator[n].stage \in InHand
    <3>1. migrator[n].version \in Version /\ 1..(migrator[n].version - 1) \subseteq Version
      BY <2>1, VersionAssumption DEF MigratorInv, VersionReady, Version
    <3>. QED BY <3>1 DEF MigratorInv, VersionReady, Recorded
  <2>2. CASE migrator[n].stage \notin InHand
    BY <2>2 DEF MigratorInv, VersionReady, Recorded, InHand, Holding
  <2>. QED BY <2>1, <2>2
<1>4. ListOrdered(n)'
  <2>1. ASSUME NEW v \in migrator[n].todo, NEW u \in 1..(v - 1) PROVE u \in Version
    BY <1>1, VersionAssumption DEF Version
  <2>. QED BY <1>1, <2>1 DEF MigratorInv, ListOrdered
<1>5. SeenGranted(n)'
  BY <1>1 DEF MigratorInv, SeenGranted
<1>. QED
  BY <1>2, <1>3, <1>4, <1>5 DEF MigratorInv

(* A step that does not commit a version keeps what is known of the schema, *)
(* if it keeps what its own run knows. *)
LEMMA OwnStep ==
  ASSUME TypeOK, SchemaInv, NEW m \in Migrator, NEW run, Become(m, run),
         UNCHANGED <<file, record, executed>>, granted \subseteq granted',
         \A n \in Migrator \ {m} : lock' = n <=> lock = n,
         MigratorInv(m)'
  PROVE  SchemaInv'
<1>1. ASSUME NEW n \in Migrator, n # m PROVE MigratorInv(n)'
  <2>1. migrator'[n] = migrator[n] /\ (lock' = n <=> lock = n)
    BY <1>1 DEF Become, TypeOK
  <2>2. /\ \A v \in Version : Recorded(v) => Recorded(v)'
        /\ \A v \in Version : file[v] # 0 => file'[v] # 0
    BY DEF Recorded
  <2>. QED BY <2>1, <2>2, OtherRun DEF SchemaInv
<1>2. \A n \in Migrator : MigratorInv(n)'
  BY <1>1
<1>. QED
  BY <1>2 DEF SchemaInv, FilesContiguous, MigrationAtomic, MigrationsInOrder

(* Only its commit changes what other runs rely on, and they hold no lock.  *)
LEMMA CommitVersionStep ==
  ASSUME TypeOK, SchemaInv, NEW m \in Migrator, CommitVersion(m)
  PROVE  SchemaInv'
<1>. DEFINE r == migrator[m]
<1>0. PICK v : v = r.version
  OBVIOUS
<1>1. /\ r.stage = "commit" /\ lock = m /\ v \in Version /\ r.read # 0 /\ r.pending = 1
      /\ \A u \in 1..(v - 1) : Recorded(u)
      /\ ~Recorded(v)
  BY <1>0 DEF CommitVersion, At, SchemaInv, MigratorInv, LockOwned, VersionReady, Holding, InHand
<1>2. /\ migrator'[m] = [r EXCEPT !.stage = "next", !.seen = @ \cup {v}, !.pending = 0, !.auto = FALSE]
      /\ record' = [record EXCEPT ![v] = r.read]
      /\ executed' = [executed EXCEPT ![v] = @ + 1]
      /\ granted \subseteq granted' /\ lock' = Nobody /\ file' = file
      /\ \A n \in Migrator \ {m} : migrator'[n] = migrator[n]
  BY <1>0, <1>1 DEF CommitVersion, Become, TypeOK
<1>3. Recorded(v)' /\ \A u \in Version \ {v} : Recorded(u)' <=> Recorded(u)
  BY <1>1, <1>2 DEF Recorded, TypeOK
<1>4. ASSUME NEW n \in Migrator, n # m PROVE MigratorInv(n)'
  <2>1. (lock' = n <=> lock = n) /\ migrator[n].stage \notin {"execute", "commit"}
    BY <1>1, <1>2, <1>4, RunsAssumption DEF SchemaInv, MigratorInv, LockOwned, Holding
  <2>2. /\ \A u \in Version : Recorded(u) => Recorded(u)'
        /\ \A u \in Version : file[u] # 0 => file'[u] # 0
    BY <1>2, <1>3
  <2>. QED BY <1>2, <1>4, <2>1, <2>2, OtherRun DEF SchemaInv
<1>5. MigratorInv(m)'
  <2>1. /\ migrator'[m].stage = "next" /\ migrator'[m].seen = r.seen \cup {v}
        /\ migrator'[m].pending = 0 /\ migrator'[m].todo = r.todo
    BY <1>2 DEF TypeOK, MigratorRun
  <2>2. r.todo \subseteq Version /\ r.seen \subseteq Version
    BY DEF TypeOK, MigratorRun
  <2>3. LockOwned(m)'
    BY <1>2, <2>1, RunsAssumption DEF LockOwned, Holding
  <2>4. VersionReady(m)'
    BY <2>1 DEF VersionReady, InHand, Holding
  <2>5. ListOrdered(m)'
    <3>1. \A w \in r.todo : \A u \in 1..(w - 1) : u \in Version
      BY <2>2, VersionAssumption DEF Version
    <3>2. ListOrdered(m)
      BY DEF SchemaInv, MigratorInv
    <3>3. SUFFICES ASSUME NEW w \in r.todo, NEW u \in 1..(w - 1)
                   PROVE  u \in r.todo \/ Recorded(u)'
      BY <1>2, <2>1, <3>2 DEF ListOrdered
    <3>4. u \in r.todo \/ Recorded(u) \/ u = v
      BY <1>0, <3>2 DEF ListOrdered
    <3>. QED BY <1>3, <3>1, <3>4 DEF Recorded
  <2>6. SeenGranted(m)'
    <3>1. \A u \in r.seen : Recorded(u)
      BY DEF SchemaInv, MigratorInv, SeenGranted
    <3>. QED BY <1>3, <2>1, <2>2, <3>1 DEF SeenGranted, Recorded
  <2>. QED BY <2>3, <2>4, <2>5, <2>6 DEF MigratorInv
<1>6. FilesContiguous'
  BY <1>2 DEF SchemaInv, FilesContiguous
<1>7. MigrationAtomic'
  BY <1>1, <1>2, <1>3 DEF SchemaInv, MigrationAtomic, Recorded, TypeOK
<1>8. MigrationsInOrder'
  <2>1. \A w \in Version : \A u \in 1..(w - 1) : u \in Version
    BY VersionAssumption DEF Version
  <2>2. SUFFICES ASSUME NEW w \in Version, Recorded(w)', NEW u \in 1..(w - 1)
                 PROVE  Recorded(u)'
    BY DEF MigrationsInOrder, Recorded
  <2>3. u \in Version
    BY <2>1
  <2>4. Recorded(u)
    <3>1. CASE w = v
      BY <1>1, <3>1
    <3>2. CASE w # v
      BY <1>3, <2>2, <3>2 DEF SchemaInv, MigrationsInOrder, Recorded
    <3>. QED BY <3>1, <3>2
  <2>. QED BY <1>3, <2>3, <2>4 DEF Recorded
<1>. QED
  BY <1>4, <1>5, <1>6, <1>7, <1>8 DEF SchemaInv

(* A run that has failed holds nothing and knows nothing. *)
LEMMA FailedInv ==
  ASSUME TypeOK, NEW m \in Migrator, Become(m, Ended("failed", {})), lock' # m
  PROVE  MigratorInv(m)'
<1>1. migrator'[m] = Ended("failed", {})
  BY DEF Become, TypeOK
<1>. QED
  BY <1>1, EndedType DEF MigratorInv, LockOwned, VersionReady, ListOrdered, SeenGranted,
    Ended, Holding, InHand

(* A step outside the critical section that leaves the list of the run as it *)
(* is, or makes it the list of all files, keeps what the run knows. *)
LEMMA OutsideStep ==
  ASSUME TypeOK, SchemaInv, NEW m \in Migrator, NEW stage, NEW todo,
         migrator[m].stage \notin InHand, stage \notin InHand \cup {"default", "done"},
         Become(m, [migrator[m] EXCEPT !.stage = stage, !.todo = todo]),
         todo \in {migrator[m].todo, {v \in Version : file[v] # 0}},
         UNCHANGED <<file, record, executed, granted, lock>>
  PROVE  SchemaInv'
<1>. DEFINE run == [migrator[m] EXCEPT !.stage = stage, !.todo = todo]
<1>1. /\ migrator'[m] = run /\ run.stage = stage /\ run.todo = todo
      /\ run.seen = migrator[m].seen /\ run.pending = migrator[m].pending
  BY DEF Become, TypeOK, MigratorRun
<1>2. LockOwned(m)' /\ VersionReady(m)'
  BY <1>1 DEF SchemaInv, MigratorInv, LockOwned, VersionReady, Holding, InHand
<1>3. ListOrdered(m)'
  <2>1. CASE todo = migrator[m].todo
    BY <1>1, <2>1 DEF SchemaInv, MigratorInv, ListOrdered, Recorded
  <2>2. CASE todo = {v \in Version : file[v] # 0}
    <3>1. \A v \in Version : \A u \in 1..(v - 1) : u \in Version
      BY VersionAssumption DEF Version
    <3>2. \A v \in todo : file'[v] # 0 /\ \A u \in 1..(v - 1) : u \in todo
      BY <2>2, <3>1 DEF SchemaInv, FilesContiguous
    <3>. QED BY <1>1, <3>2 DEF ListOrdered
  <2>. QED BY <2>1, <2>2
<1>4. SeenGranted(m)'
  <2>1. \A v \in migrator[m].seen : Recorded(v)
    BY DEF SchemaInv, MigratorInv, SeenGranted
  <2>. QED BY <1>1, <2>1 DEF SeenGranted, Recorded
<1>5. MigratorInv(m)'
  BY <1>2, <1>3, <1>4 DEF MigratorInv
<1>. QED
  BY <1>5, OwnStep

(* Every step of the migration keeps what is known of the schema. *)
LEMMA MigratorSchema ==
  ASSUME TypeOK, SchemaInv, NEW m \in Migrator, MigratorStep(m) \/ StopMigrator(m)
  PROVE  SchemaInv'
<1>. DEFINE r == migrator[m]
<1>1. /\ MigratorInv(m) /\ r \in MigratorRun
      /\ r.todo \subseteq Version /\ r.seen \subseteq Version
  BY DEF SchemaInv, TypeOK, MigratorRun
<1>2. ASSUME NEW stage, Go(m, stage)
      PROVE  Become(m, [r EXCEPT !.stage = stage, !.todo = r.todo])
  <2>1. [r EXCEPT !.stage = stage] = [r EXCEPT !.stage = stage, !.todo = r.todo]
    BY <1>1 DEF MigratorRun
  <2>. QED BY <1>2, <2>1 DEF Go
<1>3. ASSUME Become(m, Ended("failed", {})), UNCHANGED <<file, record, executed, granted>>,
             lock' = IF lock = m THEN Nobody ELSE lock
      PROVE  SchemaInv'
  <2>1. lock' # m /\ \A n \in Migrator \ {m} : lock' = n <=> lock = n
    BY <1>3, RunsAssumption
  <2>. QED BY <1>3, <2>1, FailedInv, OwnStep
<1>4. CASE LookForRole(m)
  BY <1>2, <1>4, OutsideStep DEF LookForRole, At, InHand, Holding, reader
<1>5. CASE CreateRole(m)
  <2>1. CASE role = "absent"
    BY <1>2, <1>5, <2>1, OutsideStep DEF CreateRole, At, InHand, Holding
  <2>2. CASE role # "absent"
    <3>1. lock # m
      BY <1>1, <1>5 DEF CreateRole, At, MigratorInv, LockOwned, Holding
    <3>. QED BY <1>3, <1>5, <2>2, <3>1 DEF CreateRole
  <2>. QED BY <2>1, <2>2
<1>6. CASE AlterRole(m)
  BY <1>2, <1>6, OutsideStep DEF AlterRole, At, InHand, Holding
<1>7. CASE ListFiles(m)
  BY <1>7, OutsideStep DEF ListFiles, At, InHand, Holding, reader
<1>8. CASE CommitVersion(m)
  BY <1>8, CommitVersionStep
<1>9. CASE NoMoreFiles(m)
  BY <1>2, <1>9, OutsideStep DEF NoMoreFiles, At, InHand, Holding, reader
<1>10. CASE StopMigrator(m)
  BY <1>3, <1>10 DEF StopMigrator, reader
<1>11. CASE ReadFile(m)
  <2>1. PICK v \in r.todo :
          /\ \A u \in r.todo : v <= u
          /\ Become(m, [r EXCEPT !.stage = "lock", !.todo = @ \ {v}, !.version = v, !.read = file[v]])
    BY <1>11 DEF ReadFile
  <2>2. /\ migrator'[m].stage = "lock" /\ migrator'[m].todo = r.todo \ {v}
        /\ migrator'[m].version = v /\ migrator'[m].read = file[v]
        /\ migrator'[m].seen = r.seen /\ migrator'[m].pending = r.pending
        /\ r.stage = "next" /\ UNCHANGED <<file, record, executed, granted, lock>>
    BY <1>1, <1>11, <2>1 DEF ReadFile, At, Become, TypeOK, MigratorRun, reader
  <2>3. /\ v \in Version /\ file[v] # 0
        /\ \A u \in 1..(v - 1) : u \in Version /\ Recorded(u)
    <3>1. \A u \in 1..(v - 1) : u \in Version /\ u \notin r.todo
      BY <1>1, <2>1, VersionAssumption DEF Version
    <3>. QED BY <1>1, <2>2, <3>1 DEF MigratorInv, ListOrdered, InHand, Holding
  <2>4. LockOwned(m)' /\ VersionReady(m)'
    BY <1>1, <2>2, <2>3 DEF MigratorInv, LockOwned, VersionReady, Holding, InHand, Recorded
  <2>5. ListOrdered(m)'
    BY <1>1, <2>2 DEF MigratorInv, ListOrdered, Recorded, InHand, Holding
  <2>6. SeenGranted(m)'
    BY <1>1, <2>2 DEF MigratorInv, SeenGranted, Recorded
  <2>. QED BY <2>1, <2>2, <2>4, <2>5, <2>6, OwnStep DEF MigratorInv
<1>12. CASE TakeLock(m)
  <2>1. /\ Become(m, [r EXCEPT !.stage = "check"]) /\ r.stage = "lock"
        /\ lock = Nobody /\ lock' = m /\ UNCHANGED <<file, record, executed, granted>>
    BY <1>12 DEF TakeLock, Go, At, reader
  <2>2. /\ migrator'[m].stage = "check" /\ migrator'[m].todo = r.todo
        /\ migrator'[m].version = r.version /\ migrator'[m].read = r.read
        /\ migrator'[m].seen = r.seen /\ migrator'[m].pending = r.pending
    BY <1>1, <2>1 DEF Become, TypeOK, MigratorRun
  <2>3. MigratorInv(m)'
    BY <1>1, <2>1, <2>2 DEF MigratorInv, LockOwned, VersionReady, ListOrdered, SeenGranted,
      Holding, InHand, Recorded
  <2>4. \A n \in Migrator \ {m} : lock' = n <=> lock = n
    BY <2>1, RunsAssumption
  <2>. QED BY <2>1, <2>3, <2>4, OwnStep
<1>13. CASE CheckVersion(m)
  <2>. DEFINE known == record[r.version] # 0
  <2>1. /\ r.stage = "check" /\ lock = m /\ UNCHANGED <<file, record, executed, granted>>
        /\ r.version \in Version /\ r.read # 0
    BY <1>1, <1>13 DEF CheckVersion, At, MigratorInv, LockOwned, VersionReady, Holding, InHand, reader
  <2>2. CASE ~known
    <3>1. Become(m, [r EXCEPT !.stage = "execute"]) /\ lock' = lock
      BY <1>13, <2>2 DEF CheckVersion, Go
    <3>2. /\ migrator'[m].stage = "execute" /\ migrator'[m].todo = r.todo
          /\ migrator'[m].version = r.version /\ migrator'[m].read = r.read
          /\ migrator'[m].seen = r.seen /\ migrator'[m].pending = r.pending
      BY <1>1, <3>1 DEF Become, TypeOK, MigratorRun
    <3>3. MigratorInv(m)'
      BY <1>1, <2>1, <2>2, <3>1, <3>2 DEF MigratorInv, LockOwned, VersionReady, ListOrdered,
        SeenGranted, Holding, InHand, Recorded
    <3>. QED BY <2>1, <3>1, <3>3, OwnStep
  <2>3. CASE known /\ record[r.version] # r.read
    BY <1>3, <1>13, <2>1, <2>3 DEF CheckVersion
  <2>4. CASE known /\ record[r.version] = r.read
    <3>1. /\ Become(m, [r EXCEPT !.stage = "next", !.seen = @ \cup {r.version}])
          /\ lock' = Nobody
      BY <1>13, <2>4 DEF CheckVersion
    <3>2. /\ migrator'[m].stage = "next" /\ migrator'[m].todo = r.todo
          /\ migrator'[m].seen = r.seen \cup {r.version} /\ migrator'[m].pending = r.pending
      BY <1>1, <3>1 DEF Become, TypeOK, MigratorRun
    <3>3. LockOwned(m)' /\ VersionReady(m)' /\ SeenGranted(m)'
      BY <1>1, <2>1, <2>4, <3>1, <3>2, RunsAssumption DEF MigratorInv, LockOwned, VersionReady,
        SeenGranted, Holding, InHand, Recorded
    <3>4. ListOrdered(m)'
      BY <1>1, <2>1, <2>4, <3>2 DEF MigratorInv, ListOrdered, Recorded
    <3>5. \A n \in Migrator \ {m} : lock' = n <=> lock = n
      BY <2>1, <3>1, RunsAssumption
    <3>. QED BY <2>1, <3>1, <3>3, <3>4, <3>5, OwnStep DEF MigratorInv
  <2>. QED BY <2>2, <2>3, <2>4
<1>14. CASE Execute(m)
  <2>1. /\ Become(m, [r EXCEPT !.stage = "commit", !.pending = 1, !.auto = defaults])
        /\ r.stage = "execute" /\ UNCHANGED <<file, record, executed, granted, lock>>
    BY <1>14 DEF Execute, At, reader
  <2>2. /\ migrator'[m].stage = "commit" /\ migrator'[m].todo = r.todo
        /\ migrator'[m].version = r.version /\ migrator'[m].read = r.read
        /\ migrator'[m].seen = r.seen /\ migrator'[m].pending = 1
    BY <1>1, <2>1 DEF Become, TypeOK, MigratorRun
  <2>3. MigratorInv(m)'
    BY <1>1, <2>1, <2>2 DEF MigratorInv, LockOwned, VersionReady, ListOrdered, SeenGranted,
      Holding, InHand, Recorded
  <2>. QED BY <2>1, <2>3, OwnStep
<1>15. CASE GrantTables(m)
  <2>1. /\ Become(m, [r EXCEPT !.stage = "default"]) /\ r.stage = "grant"
        /\ UNCHANGED <<file, record, executed, lock>>
        /\ granted' = granted \cup {v \in Version : record[v] # 0}
    BY <1>15 DEF GrantTables, Go, At
  <2>2. /\ migrator'[m].stage = "default" /\ migrator'[m].todo = r.todo
        /\ migrator'[m].seen = r.seen /\ migrator'[m].pending = r.pending
    BY <1>1, <2>1 DEF Become, TypeOK, MigratorRun
  <2>3. MigratorInv(m)'
    BY <1>1, <2>1, <2>2 DEF MigratorInv, LockOwned, VersionReady, ListOrdered, SeenGranted,
      Holding, InHand, Recorded
  <2>. QED BY <2>1, <2>3, OwnStep
<1>16. CASE AlterDefaults(m)
  <2>1. /\ Become(m, Ended("done", r.seen)) /\ r.stage = "default"
        /\ UNCHANGED <<file, record, executed, lock, granted>>
    BY <1>16 DEF AlterDefaults, At
  <2>2. migrator'[m] = Ended("done", r.seen)
    BY <2>1 DEF Become, TypeOK
  <2>3. MigratorInv(m)'
    BY <1>1, <2>1, <2>2 DEF Ended, MigratorInv, LockOwned, VersionReady, ListOrdered, SeenGranted,
      Holding, InHand, Recorded
  <2>. QED BY <2>1, <2>3, OwnStep
<1>. QED
  BY <1>4, <1>5, <1>6, <1>7, <1>8, <1>9, <1>10, <1>11, <1>12, <1>13, <1>14, <1>15, <1>16
  DEF MigratorStep

(* Files only get added, the next after the last, or rewritten. *)
LEMMA FilesStep ==
  ASSUME TypeOK, SchemaInv, NEW v \in Version, AddFile(v) \/ RewriteFile(v)
  PROVE  SchemaInv'
<1>1. /\ \A u \in Version : file[u] # 0 => file'[u] # 0
      /\ \A u \in Version \ {v} : file'[u] = file[u]
      /\ UNCHANGED <<record, executed, granted, lock, migrator>>
  BY BoundsAssumption DEF AddFile, RewriteFile, TypeOK, Edition, reader
<1>2. \A m \in Migrator : MigratorInv(m)'
  BY <1>1, OtherRun DEF SchemaInv, Recorded
<1>3. FilesContiguous'
  <2>1. \A w \in Version : \A u \in 1..(w - 1) : u \in Version
    BY VersionAssumption DEF Version
  <2>2. \A u \in 1..(v - 1) : file[u] # 0
    BY DEF AddFile, RewriteFile, SchemaInv, FilesContiguous
  <2>. QED BY <1>1, <2>1, <2>2 DEF SchemaInv, FilesContiguous
<1>. QED
  BY <1>1, <1>2, <1>3 DEF SchemaInv, MigrationAtomic, MigrationsInOrder

(* Every step of a seed keeps what is known of the data. *)
LEMMA SeederData ==
  ASSUME TypeOK, DataInv, NEW s \in Seeder,
         SeederStep(s) \/ StopSeeder(s) \/ \E p \in Profiles : StartSeed(s, p)
  PROVE  DataInv'
<1>1. ASSUME SeederInv(s)', SnapshotWhole',
             \A t \in Seeder \ {s} : seeder'[t] = seeder[t]
      PROVE  DataInv'
  BY <1>1 DEF DataInv, SeederInv
<1>2. seeder[s] \in SeederRun /\ SeederInv(s)
  BY DEF TypeOK, DataInv
<1>3. ASSUME NEW p \in Profiles, StartSeed(s, p) PROVE DataInv'
  <2>1. \/ seeder'[s] = [stage |-> "truncate", profile |-> p, chunks |-> 0]
        \/ seeder'[s] = [NewSeeder EXCEPT !.stage = "failed"]
    BY <1>3 DEF StartSeed, TypeOK
  <2>2. SeederInv(s)'
    BY <2>1 DEF SeederInv, NewSeeder
  <2>. QED BY <1>1, <1>3, <2>2 DEF StartSeed, TypeOK, DataInv, SnapshotWhole
<1>4. CASE Truncate(s)
  <2>1. SeederInv(s)'
    BY <1>2, <1>4 DEF Truncate, TypeOK, SeederRun, SeederInv
  <2>. QED BY <1>1, <1>4, <2>1 DEF Truncate, TypeOK, DataInv, SnapshotWhole
<1>5. CASE CopyChunk(s)
  <2>1. /\ seeder'[s].profile = seeder[s].profile /\ seeder'[s].chunks = seeder[s].chunks + 1
        /\ seeder'[s].stage = IF seeder[s].chunks = NumBatches(seeder[s].profile)
                              THEN "validate" ELSE "copy"
    BY <1>2, <1>5 DEF CopyChunk, TypeOK, SeederRun
  <2>2. SeederInv(s)'
    BY <1>2, <1>5, <2>1 DEF CopyChunk, SeederInv
  <2>. QED BY <1>1, <1>5, <2>2 DEF CopyChunk, TypeOK, DataInv, SnapshotWhole
<1>6. CASE Validate(s)
  <2>1. SeederInv(s)'
    BY <1>2, <1>6 DEF Validate, TypeOK, SeederRun, SeederInv
  <2>. QED BY <1>1, <1>6, <2>1 DEF Validate, TypeOK, DataInv, SnapshotWhole
<1>7. CASE CommitSeed(s)
  <2>1. seeder'[s] = [NewSeeder EXCEPT !.stage = "done"]
    BY <1>7 DEF CommitSeed, TypeOK
  <2>2. SeederInv(s)'
    BY <2>1 DEF SeederInv, NewSeeder
  <2>3. SnapshotWhole'
    BY <1>2, <1>7, ProfilesAssumption DEF CommitSeed, SeederInv, SnapshotWhole
  <2>. QED BY <1>1, <1>7, <2>2, <2>3 DEF CommitSeed, TypeOK
<1>8. CASE StopSeeder(s)
  <2>1. seeder'[s] = [NewSeeder EXCEPT !.stage = "failed"]
    BY <1>8 DEF StopSeeder, TypeOK
  <2>2. SeederInv(s)'
    BY <2>1 DEF SeederInv, NewSeeder
  <2>. QED BY <1>1, <1>8, <2>2 DEF StopSeeder, TypeOK, DataInv, SnapshotWhole
<1>. QED
  BY <1>3, <1>4, <1>5, <1>6, <1>7, <1>8 DEF SeederStep

(* The migration and the files have no part in the data, nor seeds in the   *)
(* schema. *)
LEMMA RunsApart ==
  /\ DataInv /\ UNCHANGED tables => DataInv'
  /\ SchemaInv /\ UNCHANGED schema => SchemaInv'
<1>1. DataInv /\ UNCHANGED tables => DataInv'
  BY DEF DataInv, SnapshotWhole, SeederInv, tables
<1>2. SchemaInv /\ UNCHANGED schema => SchemaInv'
  BY DEF SchemaInv, FilesContiguous, MigrationAtomic, MigrationsInOrder, MigratorInv, LockOwned,
    VersionReady, ListOrdered, SeenGranted, Recorded, schema
<1>. QED
  BY <1>1, <1>2

(* Every step keeps the invariant.                                          *)
LEMMA Inductive == IInv /\ [Next]_vars => IInv'
<1>. SUFFICES ASSUME IInv, [Next]_vars PROVE IInv'
  OBVIOUS
<1>1. ASSUME NEW m \in Migrator, MigratorStep(m) \/ StopMigrator(m) PROVE IInv'
  <2>1. TypeOK' /\ SchemaInv'
    BY <1>1, MigratorType, MigratorSchema DEF IInv, SchemaInv, MigratorInv
  <2>2. UNCHANGED tables
    BY <1>1 DEF MigratorStep, StopMigrator, LookForRole, CreateRole, AlterRole, ListFiles,
      ReadFile, TakeLock, CheckVersion, Execute, CommitVersion, NoMoreFiles, GrantTables,
      AlterDefaults
  <2>. QED BY <2>1, <2>2, RunsApart DEF IInv
<1>2. ASSUME NEW s \in Seeder,
             SeederStep(s) \/ StopSeeder(s) \/ \E p \in Profiles : StartSeed(s, p)
      PROVE  IInv'
  <2>1. TypeOK' /\ DataInv'
    BY <1>2, OtherType, SeederData DEF IInv
  <2>2. UNCHANGED schema
    BY <1>2 DEF SeederStep, StopSeeder, StartSeed, Truncate, CopyChunk, Validate, CommitSeed
  <2>. QED BY <2>1, <2>2, RunsApart DEF IInv
<1>3. ASSUME NEW v \in Version, AddFile(v) \/ RewriteFile(v) PROVE IInv'
  <2>1. TypeOK' /\ SchemaInv'
    BY <1>3, OtherType, FilesStep DEF IInv
  <2>2. UNCHANGED tables
    BY <1>3 DEF AddFile, RewriteFile
  <2>. QED BY <2>1, <2>2, RunsApart DEF IInv
<1>4. CASE UNCHANGED vars
  BY <1>4, OtherType, RunsApart DEF IInv, vars
<1>. QED
  BY <1>1, <1>2, <1>3, <1>4 DEF Next

(* It holds before any run has started.                                     *)
LEMMA Initially == Init => IInv
<1>. SUFFICES ASSUME Init PROVE IInv
  OBVIOUS
<1>1. TypeOK
  <2>1. NewMigrator \in MigratorRun /\ NewSeeder \in SeederRun
    BY EndedType DEF NewMigrator, MigratorStage, NewSeeder, SeederRun, SeederStage
  <2>2. 0 \in Edition /\ 1 \in Edition
    BY BoundsAssumption DEF Edition
  <2>3. /\ file \in [Version -> Edition] /\ record \in [Version -> Edition]
        /\ executed \in [Version -> Nat]
    BY <2>2 DEF Init
  <2>4. migrator \in [Migrator -> MigratorRun] /\ seeder \in [Seeder -> SeederRun]
    BY <2>1 DEF Init
  <2>. QED BY <2>3, <2>4 DEF Init, TypeOK
<1>2. SchemaInv
  <2>1. FilesContiguous
    BY VersionAssumption DEF Init, FilesContiguous, Version
  <2>2. ASSUME NEW m \in Migrator PROVE MigratorInv(m)
    BY RunsAssumption DEF Init, NewMigrator, Ended, MigratorInv, LockOwned, VersionReady,
      ListOrdered, SeenGranted, Holding, InHand
  <2>. QED BY <2>1, <2>2 DEF Init, SchemaInv, MigrationAtomic, MigrationsInOrder
<1>3. DataInv
  BY DEF Init, DataInv, SnapshotWhole, SeederInv, NewSeeder
<1>. QED
  BY <1>1, <1>2, <1>3 DEF IInv

-----------------------------------------------------------------------------
(* The inductive invariant: types, the critical section of a version, and   *)
(* the order of what a run still has to apply. *)
THEOREM Invariance == Spec => []IInv
BY Initially, Inductive, PTL DEF Spec

(* Runs, rows and privileges have the types of their columns and fields.    *)
THEOREM TypeCorrect == Spec => []TypeOK
<1>1. IInv => TypeOK
  BY DEF IInv
<1>. QED
  BY Invariance, <1>1, PTL

(* The statements of a version take effect exactly once if it is recorded,  *)
(* and never otherwise, for any overlapping and interrupted runs.           *)
THEOREM VersionsAtomic == Spec => []MigrationAtomic
<1>1. IInv => MigrationAtomic
  BY DEF IInv, SchemaInv
<1>. QED
  BY Invariance, <1>1, PTL

(* No version is applied before those below it, whatever files the runs     *)
(* have listed.                                                             *)
THEOREM VersionsOrdered == Spec => []MigrationsInOrder
<1>1. IInv => MigrationsInOrder
  BY DEF IInv, SchemaInv
<1>. QED
  BY Invariance, <1>1, PTL

(* A run that has finished leaves the reader every table it has seen.       *)
THEOREM GrantsComplete == Spec => []FinishedRunGrants
<1>1. IInv => FinishedRunGrants
  BY DEF IInv, SchemaInv, MigratorInv, SeenGranted, FinishedRunGrants, At
<1>. QED
  BY Invariance, <1>1, PTL

(* What is committed is one whole data set, the one dataset_run names.      *)
THEOREM DataWhole == Spec => []SnapshotWhole
<1>1. IInv => SnapshotWhole
  BY DEF IInv, DataInv
<1>. QED
  BY Invariance, <1>1, PTL

-----------------------------------------------------------------------------
(* The tables of the business database: each is declared once, so that its  *)
(* references are those of its declaration.                                 *)

\* the tables, numbered in the order of TABLES
Number ==
  [dim_region |-> 1, dim_city |-> 2, dim_store |-> 3,
   dim_warehouse |-> 4, bridge_store_region_history |-> 5, dim_sales_channel |-> 6,
   store_operating_calendar |-> 7, store_target |-> 8, dim_brand |-> 9,
   dim_category |-> 10, dim_product |-> 11, dim_sku |-> 12,
   product_category_history |-> 13, product_price_history |-> 14, product_supplier_bridge |-> 15,
   product_attribute_value |-> 16, dim_customer |-> 17, dim_membership_tier |-> 18,
   customer_membership_history |-> 19, dim_customer_tag |-> 20, bridge_customer_tag |-> 21,
   customer_address |-> 22, customer_consent |-> 23, customer_identity_map |-> 24,
   fact_order |-> 25, fact_order_item |-> 26, fact_payment |-> 27,
   fact_refund |-> 28, fact_refund_item |-> 29, order_status_history |-> 30,
   order_coupon_bridge |-> 31, sales_daily_aggregate |-> 32, fact_inventory_movement |-> 33,
   fact_inventory_snapshot |-> 34, fact_stocktake |-> 35, fact_stocktake_item |-> 36,
   inventory_reservation |-> 37, inventory_transfer |-> 38, inventory_transfer_item |-> 39,
   inventory_reorder_policy |-> 40, fact_revenue_ledger |-> 41, fact_cost_ledger |-> 42,
   fact_expense_ledger |-> 43, dim_account |-> 44, dim_cost_center |-> 45,
   currency_rate_daily |-> 46, settlement_batch |-> 47, settlement_item |-> 48,
   dim_campaign |-> 49, dim_marketing_channel |-> 50, dim_coupon |-> 51,
   campaign_product_bridge |-> 52, campaign_customer_segment |-> 53, fact_campaign_touch |-> 54,
   fact_coupon_redemption |-> 55, fact_marketing_spend |-> 56]

(* A declared table has the name and the columns it is declared with.       *)
LEMMA TableFields ==
  ASSUME NEW name, NEW columns
  PROVE  Table(name, columns).name = name /\ Table(name, columns).columns = columns
BY DEF Table


(* The store tables come in the order of their numbers.                     *)
LEMMA StoreNumbers ==
  Len(StoreTables) = 8 /\ \A k \in 1..8 : Number[StoreTables[k].name] = k
<1>1. /\ StoreTables[1].name = "dim_region"
      /\ StoreTables[2].name = "dim_city"
      /\ StoreTables[3].name = "dim_store"
      /\ StoreTables[4].name = "dim_warehouse"
      /\ StoreTables[5].name = "bridge_store_region_history"
      /\ StoreTables[6].name = "dim_sales_channel"
      /\ StoreTables[7].name = "store_operating_calendar"
      /\ StoreTables[8].name = "store_target"
  BY TableFields DEF StoreTables
<1>2. Len(StoreTables) = 8
  BY DEF StoreTables
<1> QED
  BY <1>1, <1>2 DEF Number

(* So do the product tables,                                                *)
LEMMA ProductNumbers ==
  Len(ProductTables) = 8 /\ \A k \in 1..8 : Number[ProductTables[k].name] = 8 + k
<1>1. /\ ProductTables[1].name = "dim_brand"
      /\ ProductTables[2].name = "dim_category"
      /\ ProductTables[3].name = "dim_product"
      /\ ProductTables[4].name = "dim_sku"
      /\ ProductTables[5].name = "product_category_history"
      /\ ProductTables[6].name = "product_price_history"
      /\ ProductTables[7].name = "product_supplier_bridge"
      /\ ProductTables[8].name = "product_attribute_value"
  BY TableFields DEF ProductTables
<1>2. Len(ProductTables) = 8
  BY DEF ProductTables
<1> QED
  BY <1>1, <1>2 DEF Number

(* the customer tables,                                                     *)
LEMMA CustomerNumbers ==
  Len(CustomerTables) = 8 /\ \A k \in 1..8 : Number[CustomerTables[k].name] = 16 + k
<1>1. /\ CustomerTables[1].name = "dim_customer"
      /\ CustomerTables[2].name = "dim_membership_tier"
      /\ CustomerTables[3].name = "customer_membership_history"
      /\ CustomerTables[4].name = "dim_customer_tag"
      /\ CustomerTables[5].name = "bridge_customer_tag"
      /\ CustomerTables[6].name = "customer_address"
      /\ CustomerTables[7].name = "customer_consent"
      /\ CustomerTables[8].name = "customer_identity_map"
  BY TableFields DEF CustomerTables
<1>2. Len(CustomerTables) = 8
  BY DEF CustomerTables
<1> QED
  BY <1>1, <1>2 DEF Number

(* the sales tables,                                                        *)
LEMMA SalesNumbers ==
  Len(SalesTables) = 8 /\ \A k \in 1..8 : Number[SalesTables[k].name] = 24 + k
<1>1. /\ SalesTables[1].name = "fact_order"
      /\ SalesTables[2].name = "fact_order_item"
      /\ SalesTables[3].name = "fact_payment"
      /\ SalesTables[4].name = "fact_refund"
      /\ SalesTables[5].name = "fact_refund_item"
      /\ SalesTables[6].name = "order_status_history"
      /\ SalesTables[7].name = "order_coupon_bridge"
      /\ SalesTables[8].name = "sales_daily_aggregate"
  BY TableFields DEF SalesTables
<1>2. Len(SalesTables) = 8
  BY DEF SalesTables
<1> QED
  BY <1>1, <1>2 DEF Number

(* the inventory tables,                                                    *)
LEMMA InventoryNumbers ==
  Len(InventoryTables) = 8 /\ \A k \in 1..8 : Number[InventoryTables[k].name] = 32 + k
<1>1. /\ InventoryTables[1].name = "fact_inventory_movement"
      /\ InventoryTables[2].name = "fact_inventory_snapshot"
      /\ InventoryTables[3].name = "fact_stocktake"
      /\ InventoryTables[4].name = "fact_stocktake_item"
      /\ InventoryTables[5].name = "inventory_reservation"
      /\ InventoryTables[6].name = "inventory_transfer"
      /\ InventoryTables[7].name = "inventory_transfer_item"
      /\ InventoryTables[8].name = "inventory_reorder_policy"
  BY TableFields DEF InventoryTables
<1>2. Len(InventoryTables) = 8
  BY DEF InventoryTables
<1> QED
  BY <1>1, <1>2 DEF Number

(* the finance tables,                                                      *)
LEMMA FinanceNumbers ==
  Len(FinanceTables) = 8 /\ \A k \in 1..8 : Number[FinanceTables[k].name] = 40 + k
<1>1. /\ FinanceTables[1].name = "fact_revenue_ledger"
      /\ FinanceTables[2].name = "fact_cost_ledger"
      /\ FinanceTables[3].name = "fact_expense_ledger"
      /\ FinanceTables[4].name = "dim_account"
      /\ FinanceTables[5].name = "dim_cost_center"
      /\ FinanceTables[6].name = "currency_rate_daily"
      /\ FinanceTables[7].name = "settlement_batch"
      /\ FinanceTables[8].name = "settlement_item"
  BY TableFields DEF FinanceTables
<1>2. Len(FinanceTables) = 8
  BY DEF FinanceTables
<1> QED
  BY <1>1, <1>2 DEF Number

(* and the marketing tables.                                                *)
LEMMA MarketingNumbers ==
  Len(MarketingTables) = 8 /\ \A k \in 1..8 : Number[MarketingTables[k].name] = 48 + k
<1>1. /\ MarketingTables[1].name = "dim_campaign"
      /\ MarketingTables[2].name = "dim_marketing_channel"
      /\ MarketingTables[3].name = "dim_coupon"
      /\ MarketingTables[4].name = "campaign_product_bridge"
      /\ MarketingTables[5].name = "campaign_customer_segment"
      /\ MarketingTables[6].name = "fact_campaign_touch"
      /\ MarketingTables[7].name = "fact_coupon_redemption"
      /\ MarketingTables[8].name = "fact_marketing_spend"
  BY TableFields DEF MarketingTables
<1>2. Len(MarketingTables) = 8
  BY DEF MarketingTables
<1> QED
  BY <1>1, <1>2 DEF Number

(* Two lists one after the other have the items of both.                    *)
LEMMA JoinedLists ==
  ASSUME NEW S, NEW s \in Seq(S), NEW t \in Seq(S)
  PROVE  s \o t \in Seq(S) /\ Range(s \o t) = Range(s) \cup Range(t)
<1>1. PICK u : u = s \o t
  OBVIOUS
<1>2. PICK m \in Nat, n \in Nat : m = Len(s) /\ n = Len(t)
  OBVIOUS
<1>3. /\ u \in Seq(S) /\ Len(u) = m + n
      /\ \A i \in 1..(m + n) : u[i] = IF i <= m THEN s[i] ELSE t[i - m]
  BY <1>1, <1>2, ConcatProperties
<1>4. DOMAIN u = 1..(m + n) /\ DOMAIN s = 1..m /\ DOMAIN t = 1..n
  BY <1>2, <1>3
<1>5. ASSUME NEW i \in 1..m PROVE i \in 1..(m + n) /\ u[i] = s[i]
  BY <1>3
<1>6. ASSUME NEW i \in 1..n PROVE m + i \in 1..(m + n) /\ u[m + i] = t[i]
  <2>1. m + i \in 1..(m + n) /\ ~(m + i <= m) /\ (m + i) - m = i
    OBVIOUS
  <2>2. PICK k \in 1..(m + n) : k = m + i
    BY <2>1
  <2>3. u[k] = t[k - m]
    BY <1>3, <2>1, <2>2
  <2> QED
    BY <2>1, <2>2, <2>3
<1>7. ASSUME NEW i \in 1..(m + n), ~(i <= m) PROVE i - m \in 1..n /\ u[i] = t[i - m]
  BY <1>3, <1>7
<1>8. Range(s) \cup Range(t) \subseteq Range(u)
  BY <1>4, <1>5, <1>6 DEF Range
<1>9. ASSUME NEW i \in 1..(m + n) PROVE u[i] \in Range(s) \cup Range(t)
  <2>1. CASE i <= m
    <3>1. i \in 1..m /\ u[i] = s[i]
      BY <1>3, <2>1
    <3> QED
      BY <1>4, <3>1 DEF Range
  <2>2. CASE ~(i <= m)
    BY <1>4, <1>7, <2>2 DEF Range
  <2> QED
    BY <2>1, <2>2
<1>10. Range(u) \subseteq Range(s) \cup Range(t)
  BY <1>4, <1>9 DEF Range
<1> QED
  BY <1>1, <1>3, <1>8, <1>10

(* TABLES has the tables of the seven domains, and no others.               *)
LEMMA TablesByDomain ==
  Range(TABLES) =
    Range(StoreTables) \cup Range(ProductTables) \cup Range(CustomerTables)
      \cup Range(SalesTables) \cup Range(InventoryTables) \cup Range(FinanceTables)
      \cup Range(MarketingTables)
<1>1. PICK S :
        S = Range(StoreTables) \cup Range(ProductTables) \cup Range(CustomerTables)
              \cup Range(SalesTables) \cup Range(InventoryTables) \cup Range(FinanceTables)
              \cup Range(MarketingTables)
  OBVIOUS
<1>2. StoreTables \in Seq(S)
  <2>1. StoreTables \in Seq(Range(StoreTables)) /\ Range(StoreTables) \subseteq S
    BY <1>1 DEF StoreTables, Range
  <2> QED
    BY <2>1, StoreNumbers
<1>3. ProductTables \in Seq(S)
  <2>1. ProductTables \in Seq(Range(ProductTables)) /\ Range(ProductTables) \subseteq S
    BY <1>1 DEF ProductTables, Range
  <2> QED
    BY <2>1, ProductNumbers
<1>4. CustomerTables \in Seq(S)
  <2>1. CustomerTables \in Seq(Range(CustomerTables)) /\ Range(CustomerTables) \subseteq S
    BY <1>1 DEF CustomerTables, Range
  <2> QED
    BY <2>1, CustomerNumbers
<1>5. SalesTables \in Seq(S)
  <2>1. SalesTables \in Seq(Range(SalesTables)) /\ Range(SalesTables) \subseteq S
    BY <1>1 DEF SalesTables, Range
  <2> QED
    BY <2>1, SalesNumbers
<1>6. InventoryTables \in Seq(S)
  <2>1. InventoryTables \in Seq(Range(InventoryTables)) /\ Range(InventoryTables) \subseteq S
    BY <1>1 DEF InventoryTables, Range
  <2> QED
    BY <2>1, InventoryNumbers
<1>7. FinanceTables \in Seq(S)
  <2>1. FinanceTables \in Seq(Range(FinanceTables)) /\ Range(FinanceTables) \subseteq S
    BY <1>1 DEF FinanceTables, Range
  <2> QED
    BY <2>1, FinanceNumbers
<1>8. MarketingTables \in Seq(S)
  <2>1. MarketingTables \in Seq(Range(MarketingTables)) /\ Range(MarketingTables) \subseteq S
    BY <1>1 DEF MarketingTables, Range
  <2> QED
    BY <2>1, MarketingNumbers
<1>9. PICK t2 : t2 = StoreTables \o ProductTables
  OBVIOUS
<1>15. t2 \in Seq(S) /\ Range(t2) = Range(StoreTables) \cup Range(ProductTables)
  BY <1>2, <1>3, <1>9, JoinedLists
<1>10. PICK t3 : t3 = t2 \o CustomerTables
  OBVIOUS
<1>16. t3 \in Seq(S) /\ Range(t3) = Range(t2) \cup Range(CustomerTables)
  BY <1>15, <1>4, <1>10, JoinedLists
<1>11. PICK t4 : t4 = t3 \o SalesTables
  OBVIOUS
<1>17. t4 \in Seq(S) /\ Range(t4) = Range(t3) \cup Range(SalesTables)
  BY <1>16, <1>5, <1>11, JoinedLists
<1>12. PICK t5 : t5 = t4 \o InventoryTables
  OBVIOUS
<1>18. t5 \in Seq(S) /\ Range(t5) = Range(t4) \cup Range(InventoryTables)
  BY <1>17, <1>6, <1>12, JoinedLists
<1>13. PICK t6 : t6 = t5 \o FinanceTables
  OBVIOUS
<1>19. t6 \in Seq(S) /\ Range(t6) = Range(t5) \cup Range(FinanceTables)
  BY <1>18, <1>7, <1>13, JoinedLists
<1>14. PICK t7 : t7 = t6 \o MarketingTables
  OBVIOUS
<1>20. t7 \in Seq(S) /\ Range(t7) = Range(t6) \cup Range(MarketingTables)
  BY <1>19, <1>8, <1>14, JoinedLists
<1>21. TABLES = t7
  BY <1>9, <1>10, <1>11, <1>12, <1>13, <1>14 DEF TABLES
<1> QED
  BY <1>15, <1>16, <1>17, <1>18, <1>19, <1>20, <1>21

(* No two tables have the same name.                                        *)
LEMMA NamedOnce ==
  ASSUME NEW t \in Range(TABLES), NEW u \in Range(TABLES), t.name = u.name
  PROVE  t = u
<1>1. PICK n : n = Number[t.name]
  OBVIOUS
<1>2. ASSUME NEW v \in Range(StoreTables), Number[v.name] = n
      PROVE  n \in 1..8 /\ v = StoreTables[n]
  <2>1. PICK k \in 1..8 : v = StoreTables[k]
    BY StoreNumbers DEF Range
  <2>2. n = k
    BY <1>2, <2>1, StoreNumbers
  <2> QED
    BY <2>1, <2>2
<1>3. ASSUME NEW v \in Range(ProductTables), Number[v.name] = n
      PROVE  n \in 9..16 /\ v = ProductTables[n - 8]
  <2>1. PICK k \in 1..8 : v = ProductTables[k]
    BY ProductNumbers DEF Range
  <2>2. n = 8 + k
    BY <1>3, <2>1, ProductNumbers
  <2> QED
    BY <2>1, <2>2
<1>4. ASSUME NEW v \in Range(CustomerTables), Number[v.name] = n
      PROVE  n \in 17..24 /\ v = CustomerTables[n - 16]
  <2>1. PICK k \in 1..8 : v = CustomerTables[k]
    BY CustomerNumbers DEF Range
  <2>2. n = 16 + k
    BY <1>4, <2>1, CustomerNumbers
  <2> QED
    BY <2>1, <2>2
<1>5. ASSUME NEW v \in Range(SalesTables), Number[v.name] = n
      PROVE  n \in 25..32 /\ v = SalesTables[n - 24]
  <2>1. PICK k \in 1..8 : v = SalesTables[k]
    BY SalesNumbers DEF Range
  <2>2. n = 24 + k
    BY <1>5, <2>1, SalesNumbers
  <2> QED
    BY <2>1, <2>2
<1>6. ASSUME NEW v \in Range(InventoryTables), Number[v.name] = n
      PROVE  n \in 33..40 /\ v = InventoryTables[n - 32]
  <2>1. PICK k \in 1..8 : v = InventoryTables[k]
    BY InventoryNumbers DEF Range
  <2>2. n = 32 + k
    BY <1>6, <2>1, InventoryNumbers
  <2> QED
    BY <2>1, <2>2
<1>7. ASSUME NEW v \in Range(FinanceTables), Number[v.name] = n
      PROVE  n \in 41..48 /\ v = FinanceTables[n - 40]
  <2>1. PICK k \in 1..8 : v = FinanceTables[k]
    BY FinanceNumbers DEF Range
  <2>2. n = 40 + k
    BY <1>7, <2>1, FinanceNumbers
  <2> QED
    BY <2>1, <2>2
<1>8. ASSUME NEW v \in Range(MarketingTables), Number[v.name] = n
      PROVE  n \in 49..56 /\ v = MarketingTables[n - 48]
  <2>1. PICK k \in 1..8 : v = MarketingTables[k]
    BY MarketingNumbers DEF Range
  <2>2. n = 48 + k
    BY <1>8, <2>1, MarketingNumbers
  <2> QED
    BY <2>1, <2>2
<1> QED
  BY <1>1, <1>2, <1>3, <1>4, <1>5, <1>6, <1>7, <1>8, TablesByDomain

(* So the references of a table are those it is declared with.              *)
LEMMA ReferencesOf ==
  ASSUME NEW t \in Range(TABLES)
  PROVE  References(t.name) = Range(t.columns)
<1>1. PICK u : u = CHOOSE v \in Range(TABLES) : v.name = t.name
  OBVIOUS
<1>2. u \in Range(TABLES) /\ u.name = t.name
  BY <1>1
<1>3. u = t
  BY <1>2, NamedOnce
<1> QED
  BY <1>1, <1>3 DEF References

-----------------------------------------------------------------------------
(* The fixtures, one by one.                                                *)

\* the fixtures and the tables of a batch, numbered in the order they are copied
Turn ==
  [dim_region |-> 1, dim_city |-> 2, dim_store |-> 3, bridge_store_region_history |-> 4,
   dim_warehouse |-> 5, dim_sales_channel |-> 6, dim_brand |-> 7, dim_category |-> 8,
   dim_product |-> 9, dim_sku |-> 10, dim_customer |-> 11, dim_membership_tier |-> 12,
   customer_membership_history |-> 13, dim_marketing_channel |-> 14, dim_campaign |-> 15,
   campaign_product_bridge |-> 16, fact_campaign_touch |-> 17, fact_inventory_snapshot |-> 18,
   product_supplier_bridge |-> 19, fact_order |-> 20, fact_order_item |-> 21,
   fact_payment |-> 22, fact_refund |-> 23, fact_refund_item |-> 24]

\* how many rows each fixture has
Size == <<2, 2, 3, 2, 2, 2, 1, 1, 6, 6, 20, 2, 20, 1, 1, 6, 12, 12, 6>>

\* the fixture k has the rows 1..Size[k] of its table, with these references
IsFixture(k, table, refs) ==
  /\ Fixture[k].table = table /\ Turn[table] = k
  /\ DOMAIN Fixture[k].rows = 1..Size[k]
  /\ \A i \in 1..Size[k] : Fixture[k].rows[i].id = i /\ Fixture[k].rows[i].refs = refs[i]

(* The rows of a copy are numbered from 1.                                  *)
LEMMA CopiedRows ==
  ASSUME NEW k, NEW table, NEW refs, NEW n, Fixture[k] = Copy(table, Rows(refs)),
         DOMAIN refs = 1..n, Size[k] = n, Turn[table] = k
  PROVE  IsFixture(k, table, refs)
BY DEF Copy, Rows, IsFixture

(* There are 19 fixtures.                                                   *)
LEMMA SizeOf ==
  Len(Fixture) = 19 /\ Fixture \in Seq(Range(Fixture))
BY DEF Fixture, Range

(* Two regions.                                                             *)
LEMMA Fixture1 ==
  IsFixture(1, "dim_region", [i \in 1..2 |-> <<>>])
<1>1. Fixture[1] = Plain("dim_region", 2) /\ Size[1] = 2 /\ Turn["dim_region"] = 1
  BY DEF Fixture, Size, Turn
<1> QED
  BY <1>1, CopiedRows DEF Plain

(* A city in each of them.                                                  *)
LEMMA Fixture2 ==
  IsFixture(2, "dim_city", [i \in 1..2 |-> [region_id |-> i]])
<1> DEFINE refs == [i \in 1..2 |-> [region_id |-> i]]
<1>1. Fixture[2] = Copy("dim_city", Rows(refs)) /\ Size[2] = 2 /\ Turn["dim_city"] = 2
  BY DEF Fixture, Size, Turn
<1> QED
  BY <1>1, CopiedRows

(* Two stores in the first city, one in the second.                         *)
LEMMA Fixture3 ==
  IsFixture(3, "dim_store", [i \in 1..3 |-> [city_id |-> IF i <= 2 THEN 1 ELSE 2]])
<1> DEFINE refs == [i \in 1..3 |-> [city_id |-> IF i <= 2 THEN 1 ELSE 2]]
<1>1. Fixture[3] = Copy("dim_store", Rows(refs)) /\ Size[3] = 3 /\ Turn["dim_store"] = 3
  BY DEF Fixture, Size, Turn
<1> QED
  BY <1>1, CopiedRows

(* The regions the second store has been in.                                *)
LEMMA Fixture4 ==
  IsFixture(4, "bridge_store_region_history", [i \in 1..2 |-> [store_id |-> 2, region_id |-> 3 - i]])
<1> DEFINE refs == [i \in 1..2 |-> [store_id |-> 2, region_id |-> 3 - i]]
<1>1. /\ Fixture[4] = Copy("bridge_store_region_history", Rows(refs))
      /\ Size[4] = 2
      /\ Turn["bridge_store_region_history"] = 4
  BY DEF Fixture, Size, Turn
<1> QED
  BY <1>1, CopiedRows

(* A warehouse in each city.                                                *)
LEMMA Fixture5 ==
  IsFixture(5, "dim_warehouse", [i \in 1..2 |-> [city_id |-> i]])
<1> DEFINE refs == [i \in 1..2 |-> [city_id |-> i]]
<1>1. Fixture[5] = Copy("dim_warehouse", Rows(refs)) /\ Size[5] = 2 /\ Turn["dim_warehouse"] = 5
  BY DEF Fixture, Size, Turn
<1> QED
  BY <1>1, CopiedRows

(* The sales channels.                                                      *)
LEMMA Fixture6 ==
  IsFixture(6, "dim_sales_channel", [i \in 1..2 |-> <<>>])
<1>1. Fixture[6] = Plain("dim_sales_channel", 2) /\ Size[6] = 2 /\ Turn["dim_sales_channel"] = 6
  BY DEF Fixture, Size, Turn
<1> QED
  BY <1>1, CopiedRows DEF Plain

(* The brand.                                                               *)
LEMMA Fixture7 ==
  IsFixture(7, "dim_brand", [i \in 1..1 |-> <<>>])
<1>1. Fixture[7] = Plain("dim_brand", 1) /\ Size[7] = 1 /\ Turn["dim_brand"] = 7
  BY DEF Fixture, Size, Turn
<1> QED
  BY <1>1, CopiedRows DEF Plain

(* The category, which has no parent.                                       *)
LEMMA Fixture8 ==
  IsFixture(8, "dim_category", [i \in 1..1 |-> [parent_category_id |-> Null]])
<1> DEFINE refs == [i \in 1..1 |-> [parent_category_id |-> Null]]
<1>1. Fixture[8] = Copy("dim_category", Rows(refs)) /\ Size[8] = 1 /\ Turn["dim_category"] = 8
  BY DEF Fixture, Size, Turn
<1> QED
  BY <1>1, CopiedRows

(* Six products, of the brand and the category.                             *)
LEMMA Fixture9 ==
  IsFixture(9, "dim_product", [i \in 1..6 |-> [brand_id |-> 1, primary_category_id |-> 1]])
<1>1. Fixture[9] = Copy("dim_product", Products) /\ Size[9] = 6 /\ Turn["dim_product"] = 9
  BY DEF Fixture, Size, Turn
<1> QED
  BY <1>1 DEF Copy, Products, IsFixture

(* One stock keeping unit for each.                                         *)
LEMMA Fixture10 ==
  IsFixture(10, "dim_sku", [i \in 1..6 |-> [product_id |-> i]])
<1> DEFINE refs == [i \in 1..6 |-> [product_id |-> i]]
<1>1. Fixture[10] = Copy("dim_sku", Rows(refs)) /\ Size[10] = 6 /\ Turn["dim_sku"] = 10
  BY DEF Fixture, Size, Turn
<1> QED
  BY <1>1, CopiedRows

(* Twenty customers.                                                        *)
LEMMA Fixture11 ==
  IsFixture(11, "dim_customer", [i \in 1..20 |-> <<>>])
<1>1. Fixture[11] = Plain("dim_customer", 20) /\ Size[11] = 20 /\ Turn["dim_customer"] = 11
  BY DEF Fixture, Size, Turn
<1> QED
  BY <1>1, CopiedRows DEF Plain

(* The tiers of membership.                                                 *)
LEMMA Fixture12 ==
  IsFixture(12, "dim_membership_tier", [i \in 1..2 |-> <<>>])
<1>1. /\ Fixture[12] = Plain("dim_membership_tier", 2)
      /\ Size[12] = 2
      /\ Turn["dim_membership_tier"] = 12
  BY DEF Fixture, Size, Turn
<1> QED
  BY <1>1, CopiedRows DEF Plain

(* The membership of each customer.                                         *)
LEMMA Fixture13 ==
  IsFixture(13, "customer_membership_history",
    [i \in 1..20 |-> [customer_id |-> i, tier_id |-> IF i > 5 THEN 1 ELSE 2]])
<1> DEFINE refs == [i \in 1..20 |-> [customer_id |-> i, tier_id |-> IF i > 5 THEN 1 ELSE 2]]
<1>1. /\ Fixture[13] = Copy("customer_membership_history", Rows(refs))
      /\ Size[13] = 20
      /\ Turn["customer_membership_history"] = 13
  BY DEF Fixture, Size, Turn
<1> QED
  BY <1>1, CopiedRows

(* The marketing channel.                                                   *)
LEMMA Fixture14 ==
  IsFixture(14, "dim_marketing_channel", [i \in 1..1 |-> <<>>])
<1>1. /\ Fixture[14] = Plain("dim_marketing_channel", 1)
      /\ Size[14] = 1
      /\ Turn["dim_marketing_channel"] = 14
  BY DEF Fixture, Size, Turn
<1> QED
  BY <1>1, CopiedRows DEF Plain

(* The campaign, in that channel.                                           *)
LEMMA Fixture15 ==
  IsFixture(15, "dim_campaign", [i \in 1..1 |-> [channel_id |-> 1]])
<1> DEFINE refs == [i \in 1..1 |-> [channel_id |-> 1]]
<1>1. Fixture[15] = Copy("dim_campaign", Rows(refs)) /\ Size[15] = 1 /\ Turn["dim_campaign"] = 15
  BY DEF Fixture, Size, Turn
<1> QED
  BY <1>1, CopiedRows

(* The products of the campaign, without a category.                        *)
LEMMA Fixture16 ==
  IsFixture(16, "campaign_product_bridge",
    [i \in 1..6 |-> [campaign_id |-> 1, product_id |-> i, category_id |-> Null]])
<1> DEFINE refs == [i \in 1..6 |-> [campaign_id |-> 1, product_id |-> i, category_id |-> Null]]
<1>1. /\ Fixture[16] = Copy("campaign_product_bridge", Rows(refs))
      /\ Size[16] = 6
      /\ Turn["campaign_product_bridge"] = 16
  BY DEF Fixture, Size, Turn
<1> QED
  BY <1>1, CopiedRows

(* The customers the campaign has touched.                                  *)
LEMMA Fixture17 ==
  IsFixture(17, "fact_campaign_touch",
    [i \in 1..12 |-> [campaign_id |-> 1, customer_id |-> i, marketing_channel_id |-> 1]])
<1> DEFINE refs == [i \in 1..12 |-> [campaign_id |-> 1, customer_id |-> i, marketing_channel_id |-> 1]]
<1>1. /\ Fixture[17] = Copy("fact_campaign_touch", Rows(refs))
      /\ Size[17] = 12
      /\ Turn["fact_campaign_touch"] = 17
  BY DEF Fixture, Size, Turn
<1> QED
  BY <1>1, CopiedRows

(* What the two warehouses have of the six stock keeping units.             *)
LEMMA Fixture18 ==
  IsFixture(18, "fact_inventory_snapshot",
    [i \in 1..12 |-> [warehouse_id |-> IF i % 2 = 1 THEN 1 ELSE 2, sku_id |-> ((i - 1) % 6) + 1]])
<1>1. /\ Fixture[18] = Copy("fact_inventory_snapshot", Snapshots)
      /\ Size[18] = 12
      /\ Turn["fact_inventory_snapshot"] = 18
  BY DEF Fixture, Size, Turn
<1> QED
  BY <1>1 DEF Copy, Snapshots, IsFixture

(* A supplier for each stock keeping unit.                                  *)
LEMMA Fixture19 ==
  IsFixture(19, "product_supplier_bridge", [i \in 1..6 |-> [sku_id |-> i]])
<1> DEFINE refs == [i \in 1..6 |-> [sku_id |-> i]]
<1>1. /\ Fixture[19] = Copy("product_supplier_bridge", Rows(refs))
      /\ Size[19] = 6
      /\ Turn["product_supplier_bridge"] = 19
  BY DEF Fixture, Size, Turn
<1> QED
  BY <1>1, CopiedRows

-----------------------------------------------------------------------------
(* The references of the tables that are filled.                            *)

(* The references of a table, from its declaration.                         *)
LEMMA Declared ==
  ASSUME NEW name, NEW columns, Table(name, columns) \in Range(TABLES)
  PROVE  References(name) = Range(columns)
BY ReferencesOf, TableFields

(* Every table of a domain is declared.                                     *)
LEMMA TableAt ==
  \A k \in 1..8 :
    /\ StoreTables[k] \in Range(TABLES) /\ ProductTables[k] \in Range(TABLES)
    /\ CustomerTables[k] \in Range(TABLES) /\ SalesTables[k] \in Range(TABLES)
    /\ InventoryTables[k] \in Range(TABLES) /\ MarketingTables[k] \in Range(TABLES)
<1>1. \A k \in 1..8 :
        /\ StoreTables[k] \in Range(StoreTables)
        /\ ProductTables[k] \in Range(ProductTables)
        /\ CustomerTables[k] \in Range(CustomerTables)
        /\ SalesTables[k] \in Range(SalesTables)
        /\ InventoryTables[k] \in Range(InventoryTables)
        /\ MarketingTables[k] \in Range(MarketingTables)
  BY DEF Range, StoreTables, ProductTables, CustomerTables, SalesTables, InventoryTables,
         MarketingTables
<1> QED
  BY <1>1, TablesByDomain

(* The items of a list of at most three.                                    *)
LEMMA RangeOfFew ==
  /\ Range(<<>>) = {}
  /\ \A a : Range(<<a>>) = {a}
  /\ \A a, b : Range(<<a, b>>) = {a, b}
  /\ \A a, b, c : Range(<<a, b, c>>) = {a, b, c}
BY DEF Range

(* The references of every table the generator fills.                       *)
LEMMA FixtureReferences ==
  /\ References("dim_region") = {}
  /\ References("dim_city") = {Ref("region_id", "dim_region")}
  /\ References("dim_store") = {Ref("city_id", "dim_city")}
  /\ References("bridge_store_region_history") = {Ref("store_id", "dim_store"),
                                                  Ref("region_id", "dim_region")}
  /\ References("dim_warehouse") = {Ref("city_id", "dim_city")}
  /\ References("dim_sales_channel") = {}
  /\ References("dim_brand") = {}
  /\ References("dim_category") = {Opt("parent_category_id", "dim_category")}
  /\ References("dim_product") = {Ref("brand_id", "dim_brand"),
                                  Ref("primary_category_id", "dim_category")}
  /\ References("dim_sku") = {Ref("product_id", "dim_product")}
  /\ References("dim_customer") = {}
  /\ References("dim_membership_tier") = {}
  /\ References("customer_membership_history") = {Ref("customer_id", "dim_customer"),
                                                  Ref("tier_id", "dim_membership_tier")}
  /\ References("dim_marketing_channel") = {}
  /\ References("dim_campaign") = {Ref("channel_id", "dim_marketing_channel")}
  /\ References("campaign_product_bridge") = {Ref("campaign_id", "dim_campaign"),
                                              Opt("product_id", "dim_product"),
                                              Opt("category_id", "dim_category")}
  /\ References("fact_campaign_touch") = {Ref("campaign_id", "dim_campaign"),
                                          Ref("customer_id", "dim_customer"),
                                          Ref("marketing_channel_id", "dim_marketing_channel")}
  /\ References("fact_inventory_snapshot") = {Ref("warehouse_id", "dim_warehouse"),
                                              Ref("sku_id", "dim_sku")}
  /\ References("product_supplier_bridge") = {Ref("sku_id", "dim_sku")}
  /\ References("fact_order") = {Opt("customer_id", "dim_customer"), Opt("store_id", "dim_store"),
                                 Ref("channel_id", "dim_sales_channel")}
  /\ References("fact_order_item") = {Ref("order_id", "fact_order"), Ref("sku_id", "dim_sku")}
  /\ References("fact_payment") = {Ref("order_id", "fact_order")}
  /\ References("fact_refund") = {Ref("order_id", "fact_order")}
  /\ References("fact_refund_item") = {Ref("refund_id", "fact_refund"),
                                       Ref("order_item_id", "fact_order_item")}
<1>1. References("dim_region") = {}
  <2>1. StoreTables[1] = Table("dim_region", <<>>)
    BY DEF StoreTables
  <2>2. References("dim_region") = Range(<<>>)
    BY <2>1, TableAt, Declared
  <2> QED
    BY <2>2, RangeOfFew
<1>2. References("dim_city") = {Ref("region_id", "dim_region")}
  <2>1. StoreTables[2] = Table("dim_city", <<Ref("region_id", "dim_region")>>)
    BY DEF StoreTables
  <2>2. References("dim_city") = Range(<<Ref("region_id", "dim_region")>>)
    BY <2>1, TableAt, Declared
  <2> QED
    BY <2>2, RangeOfFew
<1>3. References("dim_store") = {Ref("city_id", "dim_city")}
  <2>1. StoreTables[3] = Table("dim_store", <<Ref("city_id", "dim_city")>>)
    BY DEF StoreTables
  <2>2. References("dim_store") = Range(<<Ref("city_id", "dim_city")>>)
    BY <2>1, TableAt, Declared
  <2> QED
    BY <2>2, RangeOfFew
<1>4. References("bridge_store_region_history") = {Ref("store_id", "dim_store"),
                                                   Ref("region_id", "dim_region")}
  <2>1. StoreTables[5]
          = Table("bridge_store_region_history", <<Ref("store_id", "dim_store"),
                                                   Ref("region_id", "dim_region")>>)
    BY DEF StoreTables
  <2>2. References("bridge_store_region_history") = Range(<<Ref("store_id", "dim_store"),
                                                            Ref("region_id", "dim_region")>>)
    BY <2>1, TableAt, Declared
  <2> QED
    BY <2>2, RangeOfFew
<1>5. References("dim_warehouse") = {Ref("city_id", "dim_city")}
  <2>1. StoreTables[4] = Table("dim_warehouse", <<Ref("city_id", "dim_city")>>)
    BY DEF StoreTables
  <2>2. References("dim_warehouse") = Range(<<Ref("city_id", "dim_city")>>)
    BY <2>1, TableAt, Declared
  <2> QED
    BY <2>2, RangeOfFew
<1>6. References("dim_sales_channel") = {}
  <2>1. StoreTables[6] = Table("dim_sales_channel", <<>>)
    BY DEF StoreTables
  <2>2. References("dim_sales_channel") = Range(<<>>)
    BY <2>1, TableAt, Declared
  <2> QED
    BY <2>2, RangeOfFew
<1>7. References("dim_brand") = {}
  <2>1. ProductTables[1] = Table("dim_brand", <<>>)
    BY DEF ProductTables
  <2>2. References("dim_brand") = Range(<<>>)
    BY <2>1, TableAt, Declared
  <2> QED
    BY <2>2, RangeOfFew
<1>8. References("dim_category") = {Opt("parent_category_id", "dim_category")}
  <2>1. ProductTables[2] = Table("dim_category", <<Opt("parent_category_id", "dim_category")>>)
    BY DEF ProductTables
  <2>2. References("dim_category") = Range(<<Opt("parent_category_id", "dim_category")>>)
    BY <2>1, TableAt, Declared
  <2> QED
    BY <2>2, RangeOfFew
<1>9. References("dim_product") = {Ref("brand_id", "dim_brand"),
                                   Ref("primary_category_id", "dim_category")}
  <2>1. ProductTables[3] = Table("dim_product", <<Ref("brand_id", "dim_brand"),
                                                  Ref("primary_category_id", "dim_category")>>)
    BY DEF ProductTables
  <2>2. References("dim_product") = Range(<<Ref("brand_id", "dim_brand"),
                                            Ref("primary_category_id", "dim_category")>>)
    BY <2>1, TableAt, Declared
  <2> QED
    BY <2>2, RangeOfFew
<1>10. References("dim_sku") = {Ref("product_id", "dim_product")}
  <2>1. ProductTables[4] = Table("dim_sku", <<Ref("product_id", "dim_product")>>)
    BY DEF ProductTables
  <2>2. References("dim_sku") = Range(<<Ref("product_id", "dim_product")>>)
    BY <2>1, TableAt, Declared
  <2> QED
    BY <2>2, RangeOfFew
<1>11. References("dim_customer") = {}
  <2>1. CustomerTables[1] = Table("dim_customer", <<>>)
    BY DEF CustomerTables
  <2>2. References("dim_customer") = Range(<<>>)
    BY <2>1, TableAt, Declared
  <2> QED
    BY <2>2, RangeOfFew
<1>12. References("dim_membership_tier") = {}
  <2>1. CustomerTables[2] = Table("dim_membership_tier", <<>>)
    BY DEF CustomerTables
  <2>2. References("dim_membership_tier") = Range(<<>>)
    BY <2>1, TableAt, Declared
  <2> QED
    BY <2>2, RangeOfFew
<1>13. References("customer_membership_history") = {Ref("customer_id", "dim_customer"),
                                                    Ref("tier_id", "dim_membership_tier")}
  <2>1. CustomerTables[3]
          = Table("customer_membership_history", <<Ref("customer_id", "dim_customer"),
                                                   Ref("tier_id", "dim_membership_tier")>>)
    BY DEF CustomerTables
  <2>2. References("customer_membership_history")
          = Range(<<Ref("customer_id", "dim_customer"), Ref("tier_id", "dim_membership_tier")>>)
    BY <2>1, TableAt, Declared
  <2> QED
    BY <2>2, RangeOfFew
<1>14. References("dim_marketing_channel") = {}
  <2>1. MarketingTables[2] = Table("dim_marketing_channel", <<>>)
    BY DEF MarketingTables
  <2>2. References("dim_marketing_channel") = Range(<<>>)
    BY <2>1, TableAt, Declared
  <2> QED
    BY <2>2, RangeOfFew
<1>15. References("dim_campaign") = {Ref("channel_id", "dim_marketing_channel")}
  <2>1. MarketingTables[1] = Table("dim_campaign", <<Ref("channel_id", "dim_marketing_channel")>>)
    BY DEF MarketingTables
  <2>2. References("dim_campaign") = Range(<<Ref("channel_id", "dim_marketing_channel")>>)
    BY <2>1, TableAt, Declared
  <2> QED
    BY <2>2, RangeOfFew
<1>16. References("campaign_product_bridge") = {Ref("campaign_id", "dim_campaign"),
                                                Opt("product_id", "dim_product"),
                                                Opt("category_id", "dim_category")}
  <2>1. MarketingTables[4]
          = Table("campaign_product_bridge", <<Ref("campaign_id", "dim_campaign"),
                                               Opt("product_id", "dim_product"),
                                               Opt("category_id", "dim_category")>>)
    BY DEF MarketingTables
  <2>2. References("campaign_product_bridge") = Range(<<Ref("campaign_id", "dim_campaign"),
                                                        Opt("product_id", "dim_product"),
                                                        Opt("category_id", "dim_category")>>)
    BY <2>1, TableAt, Declared
  <2> QED
    BY <2>2, RangeOfFew
<1>17. References("fact_campaign_touch") = {Ref("campaign_id", "dim_campaign"),
                                            Ref("customer_id", "dim_customer"),
                                            Ref("marketing_channel_id", "dim_marketing_channel")}
  <2>1. MarketingTables[6]
          = Table("fact_campaign_touch", <<Ref("campaign_id", "dim_campaign"),
                                           Ref("customer_id", "dim_customer"),
                                           Ref("marketing_channel_id", "dim_marketing_channel")>>)
    BY DEF MarketingTables
  <2>2. References("fact_campaign_touch")
          = Range(<<Ref("campaign_id", "dim_campaign"), Ref("customer_id", "dim_customer"),
                    Ref("marketing_channel_id", "dim_marketing_channel")>>)
    BY <2>1, TableAt, Declared
  <2> QED
    BY <2>2, RangeOfFew
<1>18. References("fact_inventory_snapshot") = {Ref("warehouse_id", "dim_warehouse"),
                                                Ref("sku_id", "dim_sku")}
  <2>1. InventoryTables[2]
          = Table("fact_inventory_snapshot", <<Ref("warehouse_id", "dim_warehouse"),
                                               Ref("sku_id", "dim_sku")>>)
    BY DEF InventoryTables
  <2>2. References("fact_inventory_snapshot") = Range(<<Ref("warehouse_id", "dim_warehouse"),
                                                        Ref("sku_id", "dim_sku")>>)
    BY <2>1, TableAt, Declared
  <2> QED
    BY <2>2, RangeOfFew
<1>19. References("product_supplier_bridge") = {Ref("sku_id", "dim_sku")}
  <2>1. ProductTables[7] = Table("product_supplier_bridge", <<Ref("sku_id", "dim_sku")>>)
    BY DEF ProductTables
  <2>2. References("product_supplier_bridge") = Range(<<Ref("sku_id", "dim_sku")>>)
    BY <2>1, TableAt, Declared
  <2> QED
    BY <2>2, RangeOfFew
<1>20. References("fact_order") = {Opt("customer_id", "dim_customer"),
                                   Opt("store_id", "dim_store"),
                                   Ref("channel_id", "dim_sales_channel")}
  <2>1. SalesTables[1] = Table("fact_order", <<Opt("customer_id", "dim_customer"),
                                               Opt("store_id", "dim_store"),
                                               Ref("channel_id", "dim_sales_channel")>>)
    BY DEF SalesTables
  <2>2. References("fact_order") = Range(<<Opt("customer_id", "dim_customer"),
                                           Opt("store_id", "dim_store"),
                                           Ref("channel_id", "dim_sales_channel")>>)
    BY <2>1, TableAt, Declared
  <2> QED
    BY <2>2, RangeOfFew
<1>21. References("fact_order_item") = {Ref("order_id", "fact_order"), Ref("sku_id", "dim_sku")}
  <2>1. SalesTables[2] = Table("fact_order_item", <<Ref("order_id", "fact_order"),
                                                    Ref("sku_id", "dim_sku")>>)
    BY DEF SalesTables
  <2>2. References("fact_order_item") = Range(<<Ref("order_id", "fact_order"),
                                                Ref("sku_id", "dim_sku")>>)
    BY <2>1, TableAt, Declared
  <2> QED
    BY <2>2, RangeOfFew
<1>22. References("fact_payment") = {Ref("order_id", "fact_order")}
  <2>1. SalesTables[3] = Table("fact_payment", <<Ref("order_id", "fact_order")>>)
    BY DEF SalesTables
  <2>2. References("fact_payment") = Range(<<Ref("order_id", "fact_order")>>)
    BY <2>1, TableAt, Declared
  <2> QED
    BY <2>2, RangeOfFew
<1>23. References("fact_refund") = {Ref("order_id", "fact_order")}
  <2>1. SalesTables[4] = Table("fact_refund", <<Ref("order_id", "fact_order")>>)
    BY DEF SalesTables
  <2>2. References("fact_refund") = Range(<<Ref("order_id", "fact_order")>>)
    BY <2>1, TableAt, Declared
  <2> QED
    BY <2>2, RangeOfFew
<1>24. References("fact_refund_item") = {Ref("refund_id", "fact_refund"),
                                         Ref("order_item_id", "fact_order_item")}
  <2>1. SalesTables[5] = Table("fact_refund_item", <<Ref("refund_id", "fact_refund"),
                                                     Ref("order_item_id", "fact_order_item")>>)
    BY DEF SalesTables
  <2>2. References("fact_refund_item") = Range(<<Ref("refund_id", "fact_refund"),
                                                 Ref("order_item_id", "fact_order_item")>>)
    BY <2>1, TableAt, Declared
  <2> QED
    BY <2>2, RangeOfFew
<1> QED
  BY <1>1, <1>2, <1>3, <1>4, <1>5, <1>6, <1>7, <1>8, <1>9, <1>10, <1>11, <1>12, <1>13, <1>14,
     <1>15, <1>16, <1>17, <1>18, <1>19, <1>20, <1>21, <1>22, <1>23, <1>24

-----------------------------------------------------------------------------
(* The fixtures refer to fixtures before them.                              *)

(* Each fixture fills a table of its own, with the keys from 1 to its size. *)
LEMMA FixtureKeys ==
  /\ Len(Fixture) = 19 /\ DOMAIN Fixture = 1..19
  /\ \A k \in 1..19 : /\ Turn[Fixture[k].table] = k
                      /\ DOMAIN Fixture[k].rows = 1..Size[k]
                      /\ \A i \in 1..Size[k] : Fixture[k].rows[i].id = i
                      /\ Keys(Fixture[k]) = 1..Size[k]
<1>1. Len(Fixture) = 19 /\ DOMAIN Fixture = 1..19
  BY SizeOf
<1>2. ASSUME NEW k, NEW table, NEW refs, IsFixture(k, table, refs)
      PROVE  /\ Turn[Fixture[k].table] = k
             /\ DOMAIN Fixture[k].rows = 1..Size[k]
             /\ \A i \in 1..Size[k] : Fixture[k].rows[i].id = i
             /\ Keys(Fixture[k]) = 1..Size[k]
  BY <1>2 DEF IsFixture, Keys
<1>3. \A k \in 1..19 : \E table, refs : IsFixture(k, table, refs)
  <2>1. /\ \A k \in 1..10 : \E table, refs : IsFixture(k, table, refs)
    <3> SUFFICES ASSUME NEW k \in 1..10 PROVE \E table, refs : IsFixture(k, table, refs)
      OBVIOUS
    <3>1. k = 1 \/ k = 2 \/ k = 3 \/ k = 4 \/ k = 5 \/ k = 6 \/ k = 7 \/ k = 8 \/ k = 9 \/ k = 10
      OBVIOUS
    <3> QED
      BY <3>1, Fixture1, Fixture2, Fixture3, Fixture4, Fixture5, Fixture6, Fixture7, Fixture8,
         Fixture9, Fixture10, Zenon
  <2>2. /\ \A k \in 11..19 : \E table, refs : IsFixture(k, table, refs)
    <3> SUFFICES ASSUME NEW k \in 11..19 PROVE \E table, refs : IsFixture(k, table, refs)
      OBVIOUS
    <3>1. k = 11 \/ k = 12 \/ k = 13 \/ k = 14 \/ k = 15 \/ k = 16 \/ k = 17 \/ k = 18 \/ k = 19
      OBVIOUS
    <3> QED
      BY <3>1, Fixture11, Fixture12, Fixture13, Fixture14, Fixture15, Fixture16, Fixture17,
         Fixture18, Fixture19, Zenon
  <2> QED
    BY <2>1, <2>2
<1> QED
  BY <1>1, <1>2, <1>3

\* every reference c of these rows is null, if it may be, or one of these keys
Kept(rows, c, keys) ==
  \A i \in DOMAIN rows : \/ rows[i].refs[c.name] = Null /\ c.nullable
                         \/ rows[i].refs[c.name] \in keys

(* It is enough that the references of a fixture are null or such keys row  *)
(* by row.                                                                  *)
LEMMA KeptBy ==
  ASSUME NEW k, NEW table, NEW refs, IsFixture(k, table, refs), NEW n, n = Size[k],
         NEW c, NEW name, c.name = name, NEW keys,
         \A i \in 1..n : \/ refs[i][name] = Null /\ c.nullable
                         \/ refs[i][name] \in keys
  PROVE  Kept(Fixture[k].rows, c, keys)
BY DEF IsFixture, Kept

\* every reference of the fixture k is to a fixture no later than k
FixtureKept(k) ==
  \A c \in References(Fixture[k].table) :
    \E j \in 1..k : Fixture[j].table = c.to /\ Kept(Fixture[k].rows, c, Keys(Fixture[j]))

(* The fixtures are copied in an order that keeps all their references.     *)
LEMMA FixturesKept == \A k \in 1..19 : FixtureKept(k)
<1>1. /\ Keys(Fixture[1]) = 1..2
      /\ Keys(Fixture[2]) = 1..2
      /\ Keys(Fixture[3]) = 1..3
      /\ Keys(Fixture[4]) = 1..2
      /\ Keys(Fixture[5]) = 1..2
      /\ Keys(Fixture[6]) = 1..2
      /\ Keys(Fixture[7]) = 1..1
      /\ Keys(Fixture[8]) = 1..1
      /\ Keys(Fixture[9]) = 1..6
      /\ Keys(Fixture[10]) = 1..6
      /\ Keys(Fixture[11]) = 1..20
      /\ Keys(Fixture[12]) = 1..2
      /\ Keys(Fixture[13]) = 1..20
      /\ Keys(Fixture[14]) = 1..1
      /\ Keys(Fixture[15]) = 1..1
      /\ Keys(Fixture[16]) = 1..6
      /\ Keys(Fixture[17]) = 1..12
      /\ Keys(Fixture[18]) = 1..12
      /\ Keys(Fixture[19]) = 1..6
  BY FixtureKeys DEF Size
<1>2. FixtureKept(1)
  <2>1. Fixture[1].table = "dim_region"
    BY Fixture1 DEF IsFixture
  <2> QED
    BY <2>1, FixtureReferences DEF FixtureKept
<1>3. FixtureKept(2)
  <2>1. Fixture[2].table = "dim_city"
    BY Fixture2 DEF IsFixture
  <2>2. PICK refs : refs = [i \in 1..2 |-> [region_id |-> i]]
    OBVIOUS
  <2>3. IsFixture(2, "dim_city", refs) /\ 2 = Size[2]
    BY <2>2, Fixture2 DEF Size
  <2>4. /\ Fixture[1].table = Ref("region_id", "dim_region").to
        /\ Kept(Fixture[2].rows, Ref("region_id", "dim_region"), Keys(Fixture[1]))
    <3>1. /\ Ref("region_id", "dim_region").name = "region_id"
          /\ Ref("region_id", "dim_region").to = "dim_region"
          /\ Ref("region_id", "dim_region").nullable = FALSE
      BY DEF Ref, Opt
    <3>2. Fixture[1].table = "dim_region"
      BY Fixture1 DEF IsFixture
    <3>3. \A i \in 1..2 : refs[i]["region_id"] \in Keys(Fixture[1])
      BY <1>1, <2>2
    <3> QED
      BY <2>3, <3>1, <3>2, <3>3, KeptBy
  <2>5. References(Fixture[2].table) = {Ref("region_id", "dim_region")}
    BY <2>1, FixtureReferences
  <2> QED
    BY <2>4, <2>5 DEF FixtureKept
<1>4. FixtureKept(3)
  <2>1. Fixture[3].table = "dim_store"
    BY Fixture3 DEF IsFixture
  <2>2. PICK refs : refs = [i \in 1..3 |-> [city_id |-> IF i <= 2 THEN 1 ELSE 2]]
    OBVIOUS
  <2>3. IsFixture(3, "dim_store", refs) /\ 3 = Size[3]
    BY <2>2, Fixture3 DEF Size
  <2>4. /\ Fixture[2].table = Ref("city_id", "dim_city").to
        /\ Kept(Fixture[3].rows, Ref("city_id", "dim_city"), Keys(Fixture[2]))
    <3>1. /\ Ref("city_id", "dim_city").name = "city_id"
          /\ Ref("city_id", "dim_city").to = "dim_city"
          /\ Ref("city_id", "dim_city").nullable = FALSE
      BY DEF Ref, Opt
    <3>2. Fixture[2].table = "dim_city"
      BY Fixture2 DEF IsFixture
    <3>3. \A i \in 1..3 : refs[i]["city_id"] \in Keys(Fixture[2])
      BY <1>1, <2>2
    <3> QED
      BY <2>3, <3>1, <3>2, <3>3, KeptBy
  <2>5. References(Fixture[3].table) = {Ref("city_id", "dim_city")}
    BY <2>1, FixtureReferences
  <2> QED
    BY <2>4, <2>5 DEF FixtureKept
<1>5. FixtureKept(4)
  <2>1. Fixture[4].table = "bridge_store_region_history"
    BY Fixture4 DEF IsFixture
  <2>2. PICK refs : refs = [i \in 1..2 |-> [store_id |-> 2, region_id |-> 3 - i]]
    OBVIOUS
  <2>3. IsFixture(4, "bridge_store_region_history", refs) /\ 2 = Size[4]
    BY <2>2, Fixture4 DEF Size
  <2>4. /\ Fixture[3].table = Ref("store_id", "dim_store").to
        /\ Kept(Fixture[4].rows, Ref("store_id", "dim_store"), Keys(Fixture[3]))
    <3>1. /\ Ref("store_id", "dim_store").name = "store_id"
          /\ Ref("store_id", "dim_store").to = "dim_store"
          /\ Ref("store_id", "dim_store").nullable = FALSE
      BY DEF Ref, Opt
    <3>2. Fixture[3].table = "dim_store"
      BY Fixture3 DEF IsFixture
    <3>3. \A i \in 1..2 : refs[i]["store_id"] \in Keys(Fixture[3])
      BY <1>1, <2>2
    <3> QED
      BY <2>3, <3>1, <3>2, <3>3, KeptBy
  <2>5. /\ Fixture[1].table = Ref("region_id", "dim_region").to
        /\ Kept(Fixture[4].rows, Ref("region_id", "dim_region"), Keys(Fixture[1]))
    <3>1. /\ Ref("region_id", "dim_region").name = "region_id"
          /\ Ref("region_id", "dim_region").to = "dim_region"
          /\ Ref("region_id", "dim_region").nullable = FALSE
      BY DEF Ref, Opt
    <3>2. Fixture[1].table = "dim_region"
      BY Fixture1 DEF IsFixture
    <3>3. \A i \in 1..2 : refs[i]["region_id"] \in Keys(Fixture[1])
      BY <1>1, <2>2
    <3> QED
      BY <2>3, <3>1, <3>2, <3>3, KeptBy
  <2>6. References(Fixture[4].table) = {Ref("store_id", "dim_store"),
                                        Ref("region_id", "dim_region")}
    BY <2>1, FixtureReferences
  <2> QED
    BY <2>4, <2>5, <2>6 DEF FixtureKept
<1>6. FixtureKept(5)
  <2>1. Fixture[5].table = "dim_warehouse"
    BY Fixture5 DEF IsFixture
  <2>2. PICK refs : refs = [i \in 1..2 |-> [city_id |-> i]]
    OBVIOUS
  <2>3. IsFixture(5, "dim_warehouse", refs) /\ 2 = Size[5]
    BY <2>2, Fixture5 DEF Size
  <2>4. /\ Fixture[2].table = Ref("city_id", "dim_city").to
        /\ Kept(Fixture[5].rows, Ref("city_id", "dim_city"), Keys(Fixture[2]))
    <3>1. /\ Ref("city_id", "dim_city").name = "city_id"
          /\ Ref("city_id", "dim_city").to = "dim_city"
          /\ Ref("city_id", "dim_city").nullable = FALSE
      BY DEF Ref, Opt
    <3>2. Fixture[2].table = "dim_city"
      BY Fixture2 DEF IsFixture
    <3>3. \A i \in 1..2 : refs[i]["city_id"] \in Keys(Fixture[2])
      BY <1>1, <2>2
    <3> QED
      BY <2>3, <3>1, <3>2, <3>3, KeptBy
  <2>5. References(Fixture[5].table) = {Ref("city_id", "dim_city")}
    BY <2>1, FixtureReferences
  <2> QED
    BY <2>4, <2>5 DEF FixtureKept
<1>7. FixtureKept(6)
  <2>1. Fixture[6].table = "dim_sales_channel"
    BY Fixture6 DEF IsFixture
  <2> QED
    BY <2>1, FixtureReferences DEF FixtureKept
<1>8. FixtureKept(7)
  <2>1. Fixture[7].table = "dim_brand"
    BY Fixture7 DEF IsFixture
  <2> QED
    BY <2>1, FixtureReferences DEF FixtureKept
<1>9. FixtureKept(8)
  <2>1. Fixture[8].table = "dim_category"
    BY Fixture8 DEF IsFixture
  <2>2. PICK refs : refs = [i \in 1..1 |-> [parent_category_id |-> Null]]
    OBVIOUS
  <2>3. IsFixture(8, "dim_category", refs) /\ 1 = Size[8]
    BY <2>2, Fixture8 DEF Size
  <2>4. /\ Fixture[8].table = Opt("parent_category_id", "dim_category").to
        /\ Kept(Fixture[8].rows, Opt("parent_category_id", "dim_category"), Keys(Fixture[8]))
    <3>1. /\ Opt("parent_category_id", "dim_category").name = "parent_category_id"
          /\ Opt("parent_category_id", "dim_category").to = "dim_category"
          /\ Opt("parent_category_id", "dim_category").nullable = TRUE
      BY DEF Ref, Opt
    <3>2. Fixture[8].table = "dim_category"
      BY Fixture8 DEF IsFixture
    <3>3. \A i \in 1..1 : refs[i]["parent_category_id"] = Null
      BY <2>2
    <3> QED
      BY <2>3, <3>1, <3>2, <3>3, KeptBy
  <2>5. References(Fixture[8].table) = {Opt("parent_category_id", "dim_category")}
    BY <2>1, FixtureReferences
  <2> QED
    BY <2>4, <2>5 DEF FixtureKept
<1>10. FixtureKept(9)
  <2>1. Fixture[9].table = "dim_product"
    BY Fixture9 DEF IsFixture
  <2>2. PICK refs : refs = [i \in 1..6 |-> [brand_id |-> 1, primary_category_id |-> 1]]
    OBVIOUS
  <2>3. IsFixture(9, "dim_product", refs) /\ 6 = Size[9]
    BY <2>2, Fixture9 DEF Size
  <2>4. /\ Fixture[7].table = Ref("brand_id", "dim_brand").to
        /\ Kept(Fixture[9].rows, Ref("brand_id", "dim_brand"), Keys(Fixture[7]))
    <3>1. /\ Ref("brand_id", "dim_brand").name = "brand_id"
          /\ Ref("brand_id", "dim_brand").to = "dim_brand"
          /\ Ref("brand_id", "dim_brand").nullable = FALSE
      BY DEF Ref, Opt
    <3>2. Fixture[7].table = "dim_brand"
      BY Fixture7 DEF IsFixture
    <3>3. \A i \in 1..6 : refs[i]["brand_id"] \in Keys(Fixture[7])
      BY <1>1, <2>2
    <3> QED
      BY <2>3, <3>1, <3>2, <3>3, KeptBy
  <2>5. /\ Fixture[8].table = Ref("primary_category_id", "dim_category").to
        /\ Kept(Fixture[9].rows, Ref("primary_category_id", "dim_category"), Keys(Fixture[8]))
    <3>1. /\ Ref("primary_category_id", "dim_category").name = "primary_category_id"
          /\ Ref("primary_category_id", "dim_category").to = "dim_category"
          /\ Ref("primary_category_id", "dim_category").nullable = FALSE
      BY DEF Ref, Opt
    <3>2. Fixture[8].table = "dim_category"
      BY Fixture8 DEF IsFixture
    <3>3. \A i \in 1..6 : refs[i]["primary_category_id"] \in Keys(Fixture[8])
      BY <1>1, <2>2
    <3> QED
      BY <2>3, <3>1, <3>2, <3>3, KeptBy
  <2>6. References(Fixture[9].table) = {Ref("brand_id", "dim_brand"),
                                        Ref("primary_category_id", "dim_category")}
    BY <2>1, FixtureReferences
  <2> QED
    BY <2>4, <2>5, <2>6 DEF FixtureKept
<1>11. FixtureKept(10)
  <2>1. Fixture[10].table = "dim_sku"
    BY Fixture10 DEF IsFixture
  <2>2. PICK refs : refs = [i \in 1..6 |-> [product_id |-> i]]
    OBVIOUS
  <2>3. IsFixture(10, "dim_sku", refs) /\ 6 = Size[10]
    BY <2>2, Fixture10 DEF Size
  <2>4. /\ Fixture[9].table = Ref("product_id", "dim_product").to
        /\ Kept(Fixture[10].rows, Ref("product_id", "dim_product"), Keys(Fixture[9]))
    <3>1. /\ Ref("product_id", "dim_product").name = "product_id"
          /\ Ref("product_id", "dim_product").to = "dim_product"
          /\ Ref("product_id", "dim_product").nullable = FALSE
      BY DEF Ref, Opt
    <3>2. Fixture[9].table = "dim_product"
      BY Fixture9 DEF IsFixture
    <3>3. \A i \in 1..6 : refs[i]["product_id"] \in Keys(Fixture[9])
      BY <1>1, <2>2
    <3> QED
      BY <2>3, <3>1, <3>2, <3>3, KeptBy
  <2>5. References(Fixture[10].table) = {Ref("product_id", "dim_product")}
    BY <2>1, FixtureReferences
  <2> QED
    BY <2>4, <2>5 DEF FixtureKept
<1>12. FixtureKept(11)
  <2>1. Fixture[11].table = "dim_customer"
    BY Fixture11 DEF IsFixture
  <2> QED
    BY <2>1, FixtureReferences DEF FixtureKept
<1>13. FixtureKept(12)
  <2>1. Fixture[12].table = "dim_membership_tier"
    BY Fixture12 DEF IsFixture
  <2> QED
    BY <2>1, FixtureReferences DEF FixtureKept
<1>14. FixtureKept(13)
  <2>1. Fixture[13].table = "customer_membership_history"
    BY Fixture13 DEF IsFixture
  <2>2. PICK refs : refs = [i \in 1..20 |-> [customer_id |-> i, tier_id |-> IF i > 5 THEN 1 ELSE 2]]
    OBVIOUS
  <2>3. IsFixture(13, "customer_membership_history", refs) /\ 20 = Size[13]
    BY <2>2, Fixture13 DEF Size
  <2>4. /\ Fixture[11].table = Ref("customer_id", "dim_customer").to
        /\ Kept(Fixture[13].rows, Ref("customer_id", "dim_customer"), Keys(Fixture[11]))
    <3>1. /\ Ref("customer_id", "dim_customer").name = "customer_id"
          /\ Ref("customer_id", "dim_customer").to = "dim_customer"
          /\ Ref("customer_id", "dim_customer").nullable = FALSE
      BY DEF Ref, Opt
    <3>2. Fixture[11].table = "dim_customer"
      BY Fixture11 DEF IsFixture
    <3>3. \A i \in 1..20 : refs[i]["customer_id"] \in Keys(Fixture[11])
      BY <1>1, <2>2
    <3> QED
      BY <2>3, <3>1, <3>2, <3>3, KeptBy
  <2>5. /\ Fixture[12].table = Ref("tier_id", "dim_membership_tier").to
        /\ Kept(Fixture[13].rows, Ref("tier_id", "dim_membership_tier"), Keys(Fixture[12]))
    <3>1. /\ Ref("tier_id", "dim_membership_tier").name = "tier_id"
          /\ Ref("tier_id", "dim_membership_tier").to = "dim_membership_tier"
          /\ Ref("tier_id", "dim_membership_tier").nullable = FALSE
      BY DEF Ref, Opt
    <3>2. Fixture[12].table = "dim_membership_tier"
      BY Fixture12 DEF IsFixture
    <3>3. \A i \in 1..20 : refs[i]["tier_id"] \in Keys(Fixture[12])
      BY <1>1, <2>2
    <3> QED
      BY <2>3, <3>1, <3>2, <3>3, KeptBy
  <2>6. References(Fixture[13].table) = {Ref("customer_id", "dim_customer"),
                                         Ref("tier_id", "dim_membership_tier")}
    BY <2>1, FixtureReferences
  <2> QED
    BY <2>4, <2>5, <2>6 DEF FixtureKept
<1>15. FixtureKept(14)
  <2>1. Fixture[14].table = "dim_marketing_channel"
    BY Fixture14 DEF IsFixture
  <2> QED
    BY <2>1, FixtureReferences DEF FixtureKept
<1>16. FixtureKept(15)
  <2>1. Fixture[15].table = "dim_campaign"
    BY Fixture15 DEF IsFixture
  <2>2. PICK refs : refs = [i \in 1..1 |-> [channel_id |-> 1]]
    OBVIOUS
  <2>3. IsFixture(15, "dim_campaign", refs) /\ 1 = Size[15]
    BY <2>2, Fixture15 DEF Size
  <2>4. /\ Fixture[14].table = Ref("channel_id", "dim_marketing_channel").to
        /\ Kept(Fixture[15].rows, Ref("channel_id", "dim_marketing_channel"), Keys(Fixture[14]))
    <3>1. /\ Ref("channel_id", "dim_marketing_channel").name = "channel_id"
          /\ Ref("channel_id", "dim_marketing_channel").to = "dim_marketing_channel"
          /\ Ref("channel_id", "dim_marketing_channel").nullable = FALSE
      BY DEF Ref, Opt
    <3>2. Fixture[14].table = "dim_marketing_channel"
      BY Fixture14 DEF IsFixture
    <3>3. \A i \in 1..1 : refs[i]["channel_id"] \in Keys(Fixture[14])
      BY <1>1, <2>2
    <3> QED
      BY <2>3, <3>1, <3>2, <3>3, KeptBy
  <2>5. References(Fixture[15].table) = {Ref("channel_id", "dim_marketing_channel")}
    BY <2>1, FixtureReferences
  <2> QED
    BY <2>4, <2>5 DEF FixtureKept
<1>17. FixtureKept(16)
  <2>1. Fixture[16].table = "campaign_product_bridge"
    BY Fixture16 DEF IsFixture
  <2>2. PICK refs : refs = [i \in 1..6 |-> [campaign_id |-> 1, product_id |-> i, category_id |-> Null]]
    OBVIOUS
  <2>3. IsFixture(16, "campaign_product_bridge", refs) /\ 6 = Size[16]
    BY <2>2, Fixture16 DEF Size
  <2>4. /\ Fixture[15].table = Ref("campaign_id", "dim_campaign").to
        /\ Kept(Fixture[16].rows, Ref("campaign_id", "dim_campaign"), Keys(Fixture[15]))
    <3>1. /\ Ref("campaign_id", "dim_campaign").name = "campaign_id"
          /\ Ref("campaign_id", "dim_campaign").to = "dim_campaign"
          /\ Ref("campaign_id", "dim_campaign").nullable = FALSE
      BY DEF Ref, Opt
    <3>2. Fixture[15].table = "dim_campaign"
      BY Fixture15 DEF IsFixture
    <3>3. \A i \in 1..6 : refs[i]["campaign_id"] \in Keys(Fixture[15])
      BY <1>1, <2>2
    <3> QED
      BY <2>3, <3>1, <3>2, <3>3, KeptBy
  <2>5. /\ Fixture[9].table = Opt("product_id", "dim_product").to
        /\ Kept(Fixture[16].rows, Opt("product_id", "dim_product"), Keys(Fixture[9]))
    <3>1. /\ Opt("product_id", "dim_product").name = "product_id"
          /\ Opt("product_id", "dim_product").to = "dim_product"
          /\ Opt("product_id", "dim_product").nullable = TRUE
      BY DEF Ref, Opt
    <3>2. Fixture[9].table = "dim_product"
      BY Fixture9 DEF IsFixture
    <3>3. \A i \in 1..6 : refs[i]["product_id"] \in Keys(Fixture[9])
      BY <1>1, <2>2
    <3> QED
      BY <2>3, <3>1, <3>2, <3>3, KeptBy
  <2>6. /\ Fixture[8].table = Opt("category_id", "dim_category").to
        /\ Kept(Fixture[16].rows, Opt("category_id", "dim_category"), Keys(Fixture[8]))
    <3>1. /\ Opt("category_id", "dim_category").name = "category_id"
          /\ Opt("category_id", "dim_category").to = "dim_category"
          /\ Opt("category_id", "dim_category").nullable = TRUE
      BY DEF Ref, Opt
    <3>2. Fixture[8].table = "dim_category"
      BY Fixture8 DEF IsFixture
    <3>3. \A i \in 1..6 : refs[i]["category_id"] = Null
      BY <2>2
    <3> QED
      BY <2>3, <3>1, <3>2, <3>3, KeptBy
  <2>7. References(Fixture[16].table) = {Ref("campaign_id", "dim_campaign"),
                                         Opt("product_id", "dim_product"),
                                         Opt("category_id", "dim_category")}
    BY <2>1, FixtureReferences
  <2> QED
    BY <2>4, <2>5, <2>6, <2>7 DEF FixtureKept
<1>18. FixtureKept(17)
  <2>1. Fixture[17].table = "fact_campaign_touch"
    BY Fixture17 DEF IsFixture
  <2>2. PICK refs : refs = [i \in 1..12 |-> [campaign_id |-> 1, customer_id |-> i, marketing_channel_id |-> 1]]
    OBVIOUS
  <2>3. IsFixture(17, "fact_campaign_touch", refs) /\ 12 = Size[17]
    BY <2>2, Fixture17 DEF Size
  <2>4. /\ Fixture[15].table = Ref("campaign_id", "dim_campaign").to
        /\ Kept(Fixture[17].rows, Ref("campaign_id", "dim_campaign"), Keys(Fixture[15]))
    <3>1. /\ Ref("campaign_id", "dim_campaign").name = "campaign_id"
          /\ Ref("campaign_id", "dim_campaign").to = "dim_campaign"
          /\ Ref("campaign_id", "dim_campaign").nullable = FALSE
      BY DEF Ref, Opt
    <3>2. Fixture[15].table = "dim_campaign"
      BY Fixture15 DEF IsFixture
    <3>3. \A i \in 1..12 : refs[i]["campaign_id"] \in Keys(Fixture[15])
      BY <1>1, <2>2
    <3> QED
      BY <2>3, <3>1, <3>2, <3>3, KeptBy
  <2>5. /\ Fixture[11].table = Ref("customer_id", "dim_customer").to
        /\ Kept(Fixture[17].rows, Ref("customer_id", "dim_customer"), Keys(Fixture[11]))
    <3>1. /\ Ref("customer_id", "dim_customer").name = "customer_id"
          /\ Ref("customer_id", "dim_customer").to = "dim_customer"
          /\ Ref("customer_id", "dim_customer").nullable = FALSE
      BY DEF Ref, Opt
    <3>2. Fixture[11].table = "dim_customer"
      BY Fixture11 DEF IsFixture
    <3>3. \A i \in 1..12 : refs[i]["customer_id"] \in Keys(Fixture[11])
      BY <1>1, <2>2
    <3> QED
      BY <2>3, <3>1, <3>2, <3>3, KeptBy
  <2>6. /\ Fixture[14].table = Ref("marketing_channel_id", "dim_marketing_channel").to
        /\ Kept(Fixture[17].rows, Ref("marketing_channel_id", "dim_marketing_channel"), Keys(Fixture[14]))
    <3>1. /\ Ref("marketing_channel_id", "dim_marketing_channel").name = "marketing_channel_id"
          /\ Ref("marketing_channel_id", "dim_marketing_channel").to = "dim_marketing_channel"
          /\ Ref("marketing_channel_id", "dim_marketing_channel").nullable = FALSE
      BY DEF Ref, Opt
    <3>2. Fixture[14].table = "dim_marketing_channel"
      BY Fixture14 DEF IsFixture
    <3>3. \A i \in 1..12 : refs[i]["marketing_channel_id"] \in Keys(Fixture[14])
      BY <1>1, <2>2
    <3> QED
      BY <2>3, <3>1, <3>2, <3>3, KeptBy
  <2>7. References(Fixture[17].table) = {Ref("campaign_id", "dim_campaign"),
                                         Ref("customer_id", "dim_customer"),
                                         Ref("marketing_channel_id", "dim_marketing_channel")}
    BY <2>1, FixtureReferences
  <2> QED
    BY <2>4, <2>5, <2>6, <2>7 DEF FixtureKept
<1>19. FixtureKept(18)
  <2>1. Fixture[18].table = "fact_inventory_snapshot"
    BY Fixture18 DEF IsFixture
  <2>2. PICK refs : refs = [i \in 1..12 |-> [warehouse_id |-> IF i % 2 = 1 THEN 1 ELSE 2,
                                           sku_id |-> ((i - 1) % 6) + 1]]
    OBVIOUS
  <2>3. IsFixture(18, "fact_inventory_snapshot", refs) /\ 12 = Size[18]
    BY <2>2, Fixture18 DEF Size
  <2>4. /\ Fixture[5].table = Ref("warehouse_id", "dim_warehouse").to
        /\ Kept(Fixture[18].rows, Ref("warehouse_id", "dim_warehouse"), Keys(Fixture[5]))
    <3>1. /\ Ref("warehouse_id", "dim_warehouse").name = "warehouse_id"
          /\ Ref("warehouse_id", "dim_warehouse").to = "dim_warehouse"
          /\ Ref("warehouse_id", "dim_warehouse").nullable = FALSE
      BY DEF Ref, Opt
    <3>2. Fixture[5].table = "dim_warehouse"
      BY Fixture5 DEF IsFixture
    <3>3. \A i \in 1..12 : refs[i]["warehouse_id"] \in Keys(Fixture[5])
      BY <1>1, <2>2
    <3> QED
      BY <2>3, <3>1, <3>2, <3>3, KeptBy
  <2>5. /\ Fixture[10].table = Ref("sku_id", "dim_sku").to
        /\ Kept(Fixture[18].rows, Ref("sku_id", "dim_sku"), Keys(Fixture[10]))
    <3>1. /\ Ref("sku_id", "dim_sku").name = "sku_id"
          /\ Ref("sku_id", "dim_sku").to = "dim_sku"
          /\ Ref("sku_id", "dim_sku").nullable = FALSE
      BY DEF Ref, Opt
    <3>2. Fixture[10].table = "dim_sku"
      BY Fixture10 DEF IsFixture
    <3>3. \A i \in 1..12 : refs[i]["sku_id"] \in Keys(Fixture[10])
      BY <1>1, <2>2
    <3> QED
      BY <2>3, <3>1, <3>2, <3>3, KeptBy
  <2>6. References(Fixture[18].table) = {Ref("warehouse_id", "dim_warehouse"),
                                         Ref("sku_id", "dim_sku")}
    BY <2>1, FixtureReferences
  <2> QED
    BY <2>4, <2>5, <2>6 DEF FixtureKept
<1>20. FixtureKept(19)
  <2>1. Fixture[19].table = "product_supplier_bridge"
    BY Fixture19 DEF IsFixture
  <2>2. PICK refs : refs = [i \in 1..6 |-> [sku_id |-> i]]
    OBVIOUS
  <2>3. IsFixture(19, "product_supplier_bridge", refs) /\ 6 = Size[19]
    BY <2>2, Fixture19 DEF Size
  <2>4. /\ Fixture[10].table = Ref("sku_id", "dim_sku").to
        /\ Kept(Fixture[19].rows, Ref("sku_id", "dim_sku"), Keys(Fixture[10]))
    <3>1. /\ Ref("sku_id", "dim_sku").name = "sku_id"
          /\ Ref("sku_id", "dim_sku").to = "dim_sku"
          /\ Ref("sku_id", "dim_sku").nullable = FALSE
      BY DEF Ref, Opt
    <3>2. Fixture[10].table = "dim_sku"
      BY Fixture10 DEF IsFixture
    <3>3. \A i \in 1..6 : refs[i]["sku_id"] \in Keys(Fixture[10])
      BY <1>1, <2>2
    <3> QED
      BY <2>3, <3>1, <3>2, <3>3, KeptBy
  <2>5. References(Fixture[19].table) = {Ref("sku_id", "dim_sku")}
    BY <2>1, FixtureReferences
  <2> QED
    BY <2>4, <2>5 DEF FixtureKept
<1> QED
  BY <1>2, <1>3, <1>4, <1>5, <1>6, <1>7, <1>8, <1>9, <1>10, <1>11, <1>12, <1>13, <1>14, <1>15,
     <1>16, <1>17, <1>18, <1>19, <1>20

-----------------------------------------------------------------------------
(* The copies of the fixtures are accepted.                                 *)

(* The fixture k is the copy k of chunk 0.                                  *)
LEMMA FixturePlace ==
  ASSUME NEW p, NEW k \in 1..19
  PROVE  <<0, k>> \in DOMAIN Copies(p) /\ Copies(p)[<<0, k>>] = Fixture[k]
<1>1. k \in DOMAIN Fixture
  BY FixtureKeys
<1> QED
  BY <1>1 DEF Places, Copies

(* The tables of the batch b are the copies of chunk b.                     *)
LEMMA BatchPlace ==
  ASSUME NEW p, NEW b \in 1..NumBatches(p), NEW j \in 1..5
  PROVE  <<b, j>> \in DOMAIN Copies(p) /\ Copies(p)[<<b, j>>] = Batch(p, b)[j]
<1>1. <<b, j>> \in Places(p) /\ b # 0
  BY DEF Places
<1> QED
  BY <1>1 DEF Copies

(* Nothing else is copied.                                                  *)
LEMMA PlaceOf ==
  ASSUME NEW p, NEW q \in DOMAIN Copies(p)
  PROVE  \/ \E k \in 1..19 : q = <<0, k>>
         \/ \E b \in 1..NumBatches(p), j \in 1..5 : q = <<b, j>>
<1>1. q \in Places(p) /\ DOMAIN Fixture = 1..19
  BY FixtureKeys DEF Copies
<1> QED
  BY <1>1 DEF Places

(* The five tables of a batch.                                              *)
LEMMA BatchTables ==
  ASSUME NEW p, NEW b
  PROVE  /\ Batch(p, b)[1].table = "fact_order"
         /\ Batch(p, b)[2].table = "fact_order_item"
         /\ Batch(p, b)[3].table = "fact_payment"
         /\ Batch(p, b)[4].table = "fact_refund"
         /\ Batch(p, b)[5].table = "fact_refund_item"
BY DEF Batch, Copy

(* They come after the fixtures, in this order.                             *)
LEMMA BatchTurn ==
  ASSUME NEW p, NEW b, NEW j \in 1..5
  PROVE  Turn[Batch(p, b)[j].table] = 19 + j
<1>1. j = 1 \/ j = 2 \/ j = 3 \/ j = 4 \/ j = 5
  OBVIOUS
<1>2. /\ Turn["fact_order"] = 20 /\ Turn["fact_order_item"] = 21 /\ Turn["fact_payment"] = 22
      /\ Turn["fact_refund"] = 23 /\ Turn["fact_refund_item"] = 24
  BY DEF Turn
<1>3. /\ Turn[Batch(p, b)[1].table] = 20 /\ Turn[Batch(p, b)[2].table] = 21
      /\ Turn[Batch(p, b)[3].table] = 22 /\ Turn[Batch(p, b)[4].table] = 23
      /\ Turn[Batch(p, b)[5].table] = 24
  BY <1>2, BatchTables, ZenonT(60)
<1> QED
  BY <1>1, <1>3

(* A table of a fixture is copied once.                                     *)
LEMMA FixtureTurn ==
  ASSUME NEW p, NEW k \in 1..19
  PROVE  Of(Copies(p), Fixture[k].table) = {<<0, k>>}
<1>1. Turn[Fixture[k].table] = k
  BY FixtureKeys
<1>2. <<0, k>> \in Of(Copies(p), Fixture[k].table)
  BY FixturePlace DEF Of
<1>3. ASSUME NEW q \in DOMAIN Copies(p), Copies(p)[q].table = Fixture[k].table
      PROVE  q = <<0, k>>
  <2>1. CASE \E n \in 1..19 : q = <<0, n>>
    <3>1. PICK n \in 1..19 : q = <<0, n>>
      BY <2>1
    <3>2. Fixture[n].table = Fixture[k].table
      BY <1>3, <3>1, FixturePlace
    <3>3. Turn[Fixture[n].table] = n
      BY FixtureKeys
    <3> QED
      BY <1>1, <3>1, <3>2, <3>3
  <2>2. CASE \E b \in 1..NumBatches(p), j \in 1..5 : q = <<b, j>>
    <3>1. PICK b \in 1..NumBatches(p), j \in 1..5 : q = <<b, j>>
      BY <2>2
    <3>2. Batch(p, b)[j].table = Fixture[k].table
      BY <1>3, <3>1, BatchPlace
    <3>3. Turn[Batch(p, b)[j].table] = 19 + j
      BY BatchTurn
    <3>4. k = 19 + j
      BY <1>1, <3>2, <3>3
    <3> QED
      BY <3>4
  <2> QED
    BY <2>1, <2>2, PlaceOf
<1> QED
  BY <1>2, <1>3 DEF Of

(* A table of the batches is copied once in each batch.                     *)
LEMMA BatchOf ==
  ASSUME NEW p, NEW b \in 1..NumBatches(p), NEW j \in 1..5,
         NEW table, table = Batch(p, b)[j].table
  PROVE  Of(Copies(p), table) = {<<c, j>> : c \in 1..NumBatches(p)}
<1>1. Turn[table] = 19 + j
  BY BatchTurn
<1>2. ASSUME NEW q \in DOMAIN Copies(p), Copies(p)[q].table = table
      PROVE  q \in {<<c, j>> : c \in 1..NumBatches(p)}
  <2>1. CASE \E n \in 1..19 : q = <<0, n>>
    <3>1. PICK n \in 1..19 : q = <<0, n>>
      BY <2>1
    <3>2. Fixture[n].table = table
      BY <1>2, <3>1, FixturePlace
    <3>3. Turn[Fixture[n].table] = n
      BY FixtureKeys
    <3>4. n = 19 + j
      BY <1>1, <3>2, <3>3
    <3> QED
      BY <3>4
  <2>2. CASE \E c \in 1..NumBatches(p), i \in 1..5 : q = <<c, i>>
    <3>1. PICK c \in 1..NumBatches(p), i \in 1..5 : q = <<c, i>>
      BY <2>2
    <3>2. Batch(p, c)[i].table = table
      BY <1>2, <3>1, BatchPlace
    <3>3. Turn[Batch(p, c)[i].table] = 19 + i
      BY BatchTurn
    <3>4. 19 + i = 19 + j
      BY <1>1, <3>2, <3>3
    <3>5. i = j
      BY <3>4
    <3> QED
      BY <3>1, <3>5
  <2> QED
    BY <2>1, <2>2, PlaceOf
<1>3. ASSUME NEW c \in 1..NumBatches(p) PROVE <<c, j>> \in Of(Copies(p), table)
  <2>1. Batch(p, c)[j].table = table
    <3>1. j = 1 \/ j = 2 \/ j = 3 \/ j = 4 \/ j = 5
      OBVIOUS
    <3> QED
      BY <3>1, BatchTables, ZenonT(60)
  <2> QED
    BY <2>1, BatchPlace DEF Of
<1>4. Of(Copies(p), table) \subseteq {<<c, j>> : c \in 1..NumBatches(p)}
  BY <1>2 DEF Of
<1>5. {<<c, j>> : c \in 1..NumBatches(p)} \subseteq Of(Copies(p), table)
  BY <1>3
<1> QED
  BY <1>4, <1>5

\* the keys of a table that are there at the end of the copy at q
Known(p, q, table) ==
  UNION {Keys(Copies(p)[r]) : r \in {r \in Of(Copies(p), table) : ~Precedes(q, r)}}

(* A copy is accepted when its keys are new and its references are to keys  *)
(* that are there.                                                          *)
LEMMA AcceptedBy ==
  ASSUME NEW p, NEW q, NEW copy, Copies(p)[q] = copy,
         \A i, j \in DOMAIN copy.rows : copy.rows[i].id = copy.rows[j].id => i = j,
         \A r \in Of(Copies(p), copy.table) :
           Precedes(r, q) => Keys(Copies(p)[r]) \cap Keys(copy) = {},
         \A c \in References(copy.table) : Kept(copy.rows, c, Known(p, q, c.to))
  PROVE  CopyAccepted(Copies(p), q)
BY DEF CopyAccepted, Kept, Known

(* The keys of a fixture are there from its copy on.                        *)
LEMMA KnownFixture ==
  ASSUME NEW p, NEW q, NEW j \in 1..19, ~Precedes(q, <<0, j>>)
  PROVE  Keys(Fixture[j]) \subseteq Known(p, q, Fixture[j].table)
<1>1. <<0, j>> \in Of(Copies(p), Fixture[j].table)
  BY FixtureTurn
<1>2. Copies(p)[<<0, j>>] = Fixture[j]
  BY FixturePlace
<1> QED
  BY <1>1, <1>2, Zenon DEF Known

(* A reference that is kept stays so when there are more keys.              *)
LEMMA KeptMore ==
  ASSUME NEW rows, NEW c, NEW keys, NEW more, keys \subseteq more, Kept(rows, c, keys)
  PROVE  Kept(rows, c, more)
BY DEF Kept

(* Every copy of a fixture is accepted.                                     *)
LEMMA FixtureAccepted ==
  ASSUME NEW p, NEW k \in 1..19
  PROVE  CopyAccepted(Copies(p), <<0, k>>)
<1>1. PICK q : q = <<0, k>>
  OBVIOUS
<1>2. PICK copy : copy = Fixture[k]
  OBVIOUS
<1>3. Copies(p)[q] = copy
  BY <1>1, <1>2, FixturePlace
<1>4. ASSUME NEW i \in DOMAIN copy.rows, NEW j \in DOMAIN copy.rows,
             copy.rows[i].id = copy.rows[j].id
      PROVE  i = j
  <2>1. /\ DOMAIN copy.rows = 1..Size[k]
        /\ \A n \in 1..Size[k] : copy.rows[n].id = n
    BY <1>2, FixtureKeys
  <2> QED
    BY <1>4, <2>1
<1>5. \A r \in Of(Copies(p), copy.table) : ~Precedes(r, q)
  <2>1. Of(Copies(p), copy.table) = {q}
    BY <1>1, <1>2, FixtureTurn
  <2>2. ~Precedes(q, q)
    BY <1>1 DEF Precedes
  <2> QED
    BY <2>1, <2>2
<1>6. ASSUME NEW c \in References(copy.table)
      PROVE  Kept(copy.rows, c, Known(p, q, c.to))
  <2>1. FixtureKept(k)
    BY FixturesKept
  <2>2. PICK j \in 1..k : Fixture[j].table = c.to /\ Kept(copy.rows, c, Keys(Fixture[j]))
    BY <1>2, <1>6, <2>1 DEF FixtureKept
  <2>3. j \in 1..19 /\ ~Precedes(q, <<0, j>>)
    BY <1>1 DEF Precedes
  <2>4. Keys(Fixture[j]) \subseteq Known(p, q, c.to)
    BY <2>2, <2>3, KnownFixture
  <2> QED
    BY <2>2, <2>4, KeptMore
<1>7. CopyAccepted(Copies(p), q)
  BY <1>3, <1>4, <1>5, <1>6, AcceptedBy
<1> QED
  BY <1>1, <1>7

-----------------------------------------------------------------------------
(* The numbers of the generated rows, for every profile.                    *)

(* Rows of n lines laid end to end do not overlap.                           *)
LEMMA LaidOut ==
  ASSUME NEW n \in Nat \ {0}, NEW o \in Nat, NEW u \in Nat,
         NEW l \in 1..n, NEW k \in 1..n, o * n + l = u * n + k
  PROVE  o = u /\ l = k
<1>1. ASSUME NEW a \in Nat, NEW b \in Nat, a < b, NEW i \in 1..n, NEW j \in 1..n
      PROVE  a * n + i < b * n + j
  <2>1. PICK d \in Nat : b = a + 1 + d
    <3>1. b - a - 1 \in Nat /\ b = a + 1 + (b - a - 1)
      BY <1>1
    <3> QED
      BY <3>1
  <2>2. b * n = a * n + n + d * n
    BY <2>1
  <2>3. d * n \in Nat /\ a * n \in Nat
    OBVIOUS
  <2> QED
    BY <2>2, <2>3
<1>2. ~(o < u) /\ ~(u < o)
  <2>1. o * n + l \in Int /\ u * n + k \in Int
    OBVIOUS
  <2>2. o < u => o * n + l < u * n + k
    BY <1>1
  <2>3. u < o => u * n + k < o * n + l
    BY <1>1
  <2> QED
    BY <2>1, <2>2, <2>3
<1>3. o = u
  BY <1>2
<1> QED
  BY <1>3

(* The refunds up to an order are counted.                                   *)
LEMMA RefundSet ==
  ASSUME NEW n \in Nat
  PROVE  /\ IsFiniteSet({k \in 1..n : Refunded(k)})
         /\ Cardinality({k \in 1..n : Refunded(k)}) \in Nat
<1> DEFINE S == {k \in 1..n : Refunded(k)}
<1>1. IsFiniteSet(1..n)
  BY FS_Interval
<1>2. S \in SUBSET (1..n)
  OBVIOUS
<1>3. IsFiniteSet(S)
  BY <1>1, <1>2, FS_Subset
<1> HIDE DEF S
<1>4. Cardinality(S) \in Nat
  BY <1>3, FS_CardinalityType
<1> QED
  BY <1>3, <1>4 DEF S

(* Refunds are numbered from 1, and a later refund has a larger number,      *)
(* whatever batches the two are in.                                          *)
LEMMA RefundsCounted ==
  ASSUME NEW p, NEW o \in Nat \ {0}, NEW u \in Nat \ {0}, Refunded(o), o < u, Refunded(u)
  PROVE  RefundId(p, o) \in Nat \ {0} /\ RefundId(p, o) < RefundId(p, u)
<1> DEFINE Upto(n) == {k \in 1..n : Refunded(k)}
<1>1. ASSUME NEW n \in Nat PROVE IsFiniteSet(Upto(n)) /\ Cardinality(Upto(n)) \in Nat
  BY RefundSet
<1>2. Upto(o) \cup {u} \subseteq Upto(u) /\ u \notin Upto(o) /\ o \in Upto(o)
  OBVIOUS
<1>3. Cardinality(Upto(o) \cup {u}) = Cardinality(Upto(o)) + 1
  BY <1>1, <1>2, FS_AddElement
<1>4. Cardinality(Upto(o) \cup {u}) <= Cardinality(Upto(u))
  BY <1>1, <1>2, FS_Subset
<1>5. Cardinality(Upto(o)) # 0
  BY <1>1, <1>2, FS_EmptySet
<1>6. RefundId(p, o) = Cardinality(Upto(o)) /\ RefundId(p, u) = Cardinality(Upto(u))
  BY DEF RefundId
<1> QED
  BY <1>1, <1>3, <1>4, <1>5, <1>6

(* A refund has a number.                                                    *)
LEMMA RefundNumber ==
  ASSUME NEW p, NEW o \in Nat \ {0}, Refunded(o)
  PROVE  RefundId(p, o) \in Nat \ {0}
<1>1. IsFiniteSet({k \in 1..o : Refunded(k)}) /\ Cardinality({k \in 1..o : Refunded(k)}) \in Nat
  BY RefundSet
<1>2. o \in {k \in 1..o : Refunded(k)}
  OBVIOUS
<1> QED
  BY <1>1, <1>2, FS_EmptySet DEF RefundId

(* The generator numbers the rows of every profile without a collision:      *)
(* two lines of orders, two refunds, two lines of refunds never get the same *)
(* key, also when they are made in different batches.                        *)
THEOREM SeedKeys ==
  ASSUME NEW p \in Profile, NEW o \in 1..p.orders, NEW u \in 1..p.orders,
         NEW l \in 1..p.items, NEW k \in 1..p.items
  PROVE  /\ ItemRow(p, o, l).id = ItemRow(p, u, k).id => o = u /\ l = k
         /\ Refunded(o) /\ Refunded(u) =>
              /\ RefundRow(p, o).id = RefundRow(p, u).id => o = u
              /\ (/\ l \in RefundedLines(p) /\ k \in RefundedLines(p)
                  /\ RefundItemRow(p, o, l).id = RefundItemRow(p, u, k).id) => o = u /\ l = k
<1>1. p.items \in Nat \ {0} /\ o - 1 \in Nat /\ u - 1 \in Nat
  BY DEF Profile
<1>2. ItemId(p, o, l) = ItemId(p, u, k) => o = u /\ l = k
  <2>1. PICK a \in Nat, b \in Nat, n \in Nat \ {0} : a = o - 1 /\ b = u - 1 /\ n = p.items
    BY <1>1
  <2>2. a * n + l = b * n + k => a = b /\ l = k
    BY <2>1, LaidOut
  <2>3. ItemId(p, o, l) = a * n + l /\ ItemId(p, u, k) = b * n + k
    BY <2>1 DEF ItemId
  <2>4. a = b => o = u
    BY <2>1 DEF Profile
  <2> QED
    BY <2>2, <2>3, <2>4
<1>3. ASSUME Refunded(o), Refunded(u)
      PROVE  /\ RefundId(p, o) \in Nat \ {0} /\ RefundId(p, u) \in Nat \ {0}
             /\ RefundId(p, o) = RefundId(p, u) => o = u
  <2>1. o \in Nat \ {0} /\ u \in Nat \ {0}
    BY DEF Profile
  <2>2. RefundId(p, o) \in Nat \ {0} /\ RefundId(p, u) \in Nat \ {0}
    BY <1>3, <2>1, RefundNumber
  <2>3. o < u => RefundId(p, o) < RefundId(p, u)
    BY <1>3, <2>1, RefundsCounted
  <2>4. u < o => RefundId(p, u) < RefundId(p, o)
    BY <1>3, <2>1, RefundsCounted
  <2> QED
    BY <2>1, <2>2, <2>3, <2>4
<1>4. ASSUME Refunded(o), Refunded(u), l \in RefundedLines(p), k \in RefundedLines(p),
             (RefundId(p, o) - 1) * 2 + l = (RefundId(p, u) - 1) * 2 + k
      PROVE  o = u /\ l = k
  <2>1. l \in 1..2 /\ k \in 1..2
    BY <1>1, <1>4 DEF RefundedLines
  <2>2. RefundId(p, o) \in Nat \ {0} /\ RefundId(p, u) \in Nat \ {0}
    BY <1>3, <1>4
  <2>3. RefundId(p, o) = RefundId(p, u) /\ l = k
    BY <1>4, <2>1, <2>2
  <2> QED
    BY <1>3, <1>4, <2>3
<1>5. /\ ItemRow(p, o, l).id = ItemId(p, o, l) /\ ItemRow(p, u, k).id = ItemId(p, u, k)
      /\ RefundRow(p, o).id = RefundId(p, o) /\ RefundRow(p, u).id = RefundId(p, u)
      /\ RefundItemRow(p, o, l).id = (RefundId(p, o) - 1) * 2 + l
      /\ RefundItemRow(p, u, k).id = (RefundId(p, u) - 1) * 2 + k
  BY DEF ItemRow, RefundRow, RefundItemRow
<1> QED
  BY <1>2, <1>3, <1>4, <1>5

\* the keys of the rows a fixture copies to a table
FixtureIds(table) ==
  {i \in Nat : \E k \in DOMAIN Fixture :
     Fixture[k].table = table /\ \E r \in DOMAIN Fixture[k].rows : Fixture[k].rows[r].id = i}

(* The customers, stores, channels and units that orders refer to.          *)
LEMMA FixtureCovers ==
  /\ 1..20 \subseteq FixtureIds("dim_customer")
  /\ 1..3 \subseteq FixtureIds("dim_store")
  /\ 1..2 \subseteq FixtureIds("dim_sales_channel")
  /\ 1..6 \subseteq FixtureIds("dim_sku")
<1>1. 11 \in DOMAIN Fixture /\ 3 \in DOMAIN Fixture /\ 6 \in DOMAIN Fixture /\ 10 \in DOMAIN Fixture
  BY DEF Fixture
<1>2. /\ Fixture[11] = Plain("dim_customer", 20)
      /\ Fixture[3] = Copy("dim_store", Rows([i \in 1..3 |-> [city_id |-> IF i <= 2 THEN 1 ELSE 2]]))
      /\ Fixture[6] = Plain("dim_sales_channel", 2)
      /\ Fixture[10] = Copy("dim_sku", Rows([i \in 1..6 |-> [product_id |-> i]]))
  BY DEF Fixture
<1>3. ASSUME NEW table, NEW refs, NEW k \in DOMAIN Fixture, Fixture[k] = Copy(table, Rows(refs)),
             NEW n \in Nat, DOMAIN refs = 1..n
      PROVE  1..n \subseteq FixtureIds(table)
  <2> SUFFICES ASSUME NEW i \in 1..n PROVE i \in FixtureIds(table)
    OBVIOUS
  <2>1. Fixture[k].table = table /\ Fixture[k].rows = Rows(refs)
    BY <1>3 DEF Copy
  <2>2. i \in DOMAIN Rows(refs) /\ Rows(refs)[i].id = i
    BY <1>3 DEF Rows
  <2> QED
    BY <2>1, <2>2 DEF FixtureIds
<1>4. \A table, n : Plain(table, n) = Copy(table, Rows([i \in 1..n |-> <<>>]))
  BY DEF Plain
<1>5. 1..20 \subseteq FixtureIds("dim_customer")
  <2> DEFINE refs == [i \in 1..20 |-> <<>>]
  <2>1. Fixture[11] = Copy("dim_customer", Rows(refs)) /\ DOMAIN refs = 1..20
    BY <1>2, <1>4
  <2> HIDE DEF refs
  <2> QED
    BY <1>1, <1>3, <2>1
<1>6. 1..2 \subseteq FixtureIds("dim_sales_channel")
  <2> DEFINE refs == [i \in 1..2 |-> <<>>]
  <2>1. Fixture[6] = Copy("dim_sales_channel", Rows(refs)) /\ DOMAIN refs = 1..2
    BY <1>2, <1>4
  <2> HIDE DEF refs
  <2> QED
    BY <1>1, <1>3, <2>1
<1>7. 1..3 \subseteq FixtureIds("dim_store")
  <2> DEFINE refs == [i \in 1..3 |-> [city_id |-> IF i <= 2 THEN 1 ELSE 2]]
  <2>1. Fixture[3] = Copy("dim_store", Rows(refs)) /\ DOMAIN refs = 1..3
    BY <1>2
  <2> HIDE DEF refs
  <2> QED
    BY <1>1, <1>3, <2>1
<1>8. 1..6 \subseteq FixtureIds("dim_sku")
  <2> DEFINE refs == [i \in 1..6 |-> [product_id |-> i]]
  <2>1. Fixture[10] = Copy("dim_sku", Rows(refs)) /\ DOMAIN refs = 1..6
    BY <1>2
  <2> HIDE DEF refs
  <2> QED
    BY <1>1, <1>3, <2>1
<1> QED
  BY <1>5, <1>6, <1>7, <1>8

(* Whatever the seed of the profile, an order refers to a customer, a store  *)
(* and a channel of the fixtures, or to no customer, and a line to an        *)
(* article of theirs; a line of a refund refers to its refund and to a line  *)
(* of the refunded order.                                                    *)
THEOREM SeedReferences ==
  ASSUME NEW p \in Profile, NEW o \in 1..p.orders, NEW l \in 1..p.items
  PROVE  /\ OrderRow(p, o).refs.customer_id \in FixtureIds("dim_customer") \cup {Null}
         /\ OrderRow(p, o).refs.store_id \in FixtureIds("dim_store")
         /\ OrderRow(p, o).refs.channel_id \in FixtureIds("dim_sales_channel")
         /\ ItemRow(p, o, l).refs.sku_id \in FixtureIds("dim_sku")
         /\ \A k \in RefundedLines(p) :
              /\ \E i \in 1..p.items : RefundItemRow(p, o, k).refs.order_item_id = ItemRow(p, o, i).id
              /\ RefundItemRow(p, o, k).refs.refund_id = RefundRow(p, o).id
<1>1. o \in Nat /\ p.seed \in Nat /\ l \in Nat
  BY DEF Profile
<1>2. Customer(p, o) \in 1..20 \cup {Null}
  BY <1>1 DEF Customer, Null
<1>3. (o % 3) + 1 \in 1..3 /\ (o % 2) + 1 \in 1..2 /\ Sku(p, o, l) \in 1..6
  BY <1>1 DEF Sku
<1>4. /\ OrderRow(p, o).refs.customer_id = Customer(p, o)
      /\ OrderRow(p, o).refs.store_id = (o % 3) + 1
      /\ OrderRow(p, o).refs.channel_id = (o % 2) + 1
      /\ ItemRow(p, o, l).refs.sku_id = Sku(p, o, l)
  BY DEF OrderRow, ItemRow
<1>5. ASSUME NEW k \in RefundedLines(p)
      PROVE  /\ \E i \in 1..p.items : RefundItemRow(p, o, k).refs.order_item_id = ItemRow(p, o, i).id
             /\ RefundItemRow(p, o, k).refs.refund_id = RefundRow(p, o).id
  <2>1. k \in 1..p.items
    BY DEF RefundedLines, Profile
  <2>2. /\ RefundItemRow(p, o, k).refs.order_item_id = ItemRow(p, o, k).id
        /\ RefundItemRow(p, o, k).refs.refund_id = RefundRow(p, o).id
    BY DEF ItemRow, RefundItemRow, RefundRow
  <2> QED
    BY <2>1, <2>2
<1> QED
  BY <1>2, <1>3, <1>4, <1>5, FixtureCovers

-----------------------------------------------------------------------------
(* The batches share out the orders, and no key is made twice.              *)

(* A larger count of equal batches has no fewer orders.                     *)
LEMMA Growing ==
  ASSUME NEW n \in Nat, NEW a \in Nat, NEW b \in Nat, a <= b
  PROVE  a * n <= b * n
<1>1. PICK d \in Nat : b = a + d
  <2>1. b - a \in Nat /\ b = a + (b - a)
    OBVIOUS
  <2> QED
    BY <2>1
<1>2. b * n = a * n + d * n /\ d * n \in Nat /\ a * n \in Nat
  BY <1>1
<1> QED
  BY <1>2

(* Division rounds down.                                                    *)
LEMMA Divided ==
  ASSUME NEW a \in Nat, NEW n \in Nat \ {0}
  PROVE  /\ a \div n \in Nat
         /\ (a \div n) * n <= a /\ a < (a \div n) * n + n
OBVIOUS

(* No batch goes beyond the orders of the profile.                          *)
LEMMA BatchBounds ==
  ASSUME NEW p \in Profile
  PROVE  /\ NumBatches(p) \in Nat
         /\ \A b \in 1..NumBatches(p) : Orders(p, b) \subseteq 1..p.orders
<1>1. p.orders \in Nat /\ p.batch \in Nat \ {0}
  BY DEF Profile
<1>2. NumBatches(p) \in Nat
  <2>1. p.orders + p.batch - 1 \in Nat
    BY <1>1
  <2> QED
    BY <1>1, <2>1, Divided DEF NumBatches
<1>3. ASSUME NEW b \in 1..NumBatches(p), NEW o \in Orders(p, b) PROVE o \in 1..p.orders
  <2>1. b - 1 \in Nat /\ (b - 1) * p.batch \in Nat
    BY <1>1, <1>2
  <2> QED
    BY <1>1, <2>1 DEF Orders
<1> QED
  BY <1>2, <1>3

(* Every order is in one batch.                                              *)
LEMMA OrderBatch ==
  ASSUME NEW p \in Profile
  PROVE  /\ \A o \in 1..p.orders : \E b \in 1..NumBatches(p) : o \in Orders(p, b)
         /\ \A b, c \in 1..NumBatches(p) : \A o \in Orders(p, b) : o \in Orders(p, c) => b = c
<1>1. p.orders \in Nat /\ p.batch \in Nat \ {0}
  BY DEF Profile
<1>2. PICK B \in Nat \ {0}, N \in Nat : B = p.batch /\ N = NumBatches(p)
  BY <1>1, BatchBounds
<1>3. ASSUME NEW b \in 1..N, NEW c \in 1..N, NEW o, o \in Orders(p, b), o \in Orders(p, c), b < c
      PROVE  FALSE
  <2>1. o \in Int /\ o <= b * B
    BY <1>2, <1>3 DEF Orders
  <2>2. o >= (c - 1) * B + 1
    BY <1>2, <1>3 DEF Orders
  <2>3. b * B <= (c - 1) * B
    <3>1. b \in Nat /\ c - 1 \in Nat /\ b <= c - 1
      BY <1>3
    <3> QED
      BY <3>1, Growing
  <2>4. b * B \in Int /\ (c - 1) * B \in Int
    OBVIOUS
  <2> QED
    BY <2>1, <2>2, <2>3, <2>4
<1>4. ASSUME NEW o \in 1..p.orders PROVE \E b \in 1..N : o \in Orders(p, b)
  <2>1. PICK n \in Nat : n = (o - 1) \div B
    BY <1>1, Divided
  <2>2. n * B <= o - 1 /\ o - 1 < n * B + B
    BY <1>1, <2>1, Divided
  <2>3. p.orders + B - 1 < N * B + B
    <3>1. p.orders + B - 1 \in Nat /\ N = (p.orders + B - 1) \div B
      BY <1>1, <1>2 DEF NumBatches
    <3> QED
      BY <3>1, Divided
  <2>4. n < N
    <3>1. SUFFICES ASSUME N <= n PROVE FALSE
      OBVIOUS
    <3>2. N * B <= n * B
      BY <3>1, Growing
    <3>3. N * B \in Int /\ n * B \in Int
      OBVIOUS
    <3> QED
      BY <1>1, <2>2, <2>3, <3>2, <3>3
  <2>5. n + 1 \in 1..N
    BY <2>4
  <2>6. o \in Orders(p, n + 1)
    <3>1. ((n + 1) - 1) * B = n * B /\ (n + 1) * B = n * B + B /\ n * B \in Nat
      OBVIOUS
    <3>2. o \in (n * B + 1)..(n * B + B) /\ o <= p.orders
      BY <1>1, <2>2, <3>1
    <3> QED
      BY <1>2, <3>1, <3>2 DEF Orders
  <2> QED
    BY <2>5, <2>6
<1>5. \A b, c \in 1..N : \A o \in Orders(p, b) : o \in Orders(p, c) => b = c
  BY <1>3
<1> QED
  BY <1>2, <1>4, <1>5

\* what the rows of each table are made of, for a set of orders
Origins(p, S) ==
  <<S, S \X (1..p.items), {o \in S : ~Cancelled(o)},
    {o \in S : Refunded(o)}, {o \in S : Refunded(o)} \X RefundedLines(p)>>

\* and the row
Row(p, j, i) ==
  IF j = 1 THEN OrderRow(p, i)
  ELSE IF j = 2 THEN ItemRow(p, i[1], i[2])
  ELSE IF j = 3 THEN PaymentRow(i)
  ELSE IF j = 4 THEN RefundRow(p, i)
  ELSE RefundItemRow(p, i[1], i[2])

(* A batch has five tables.                                                 *)
LEMMA FiveOf == \A j \in 1..5 : j = 1 \/ j = 2 \/ j = 3 \/ j = 4 \/ j = 5
OBVIOUS

\* the rows are those made of these origins
Made(rows, p, j, I) == DOMAIN rows = I /\ \A i \in I : rows[i] = Row(p, j, i)

(* The rows of a batch are those made of its origins.                       *)
LEMMA BatchRows ==
  ASSUME NEW p, NEW b, NEW j \in 1..5
  PROVE  Made(Batch(p, b)[j].rows, p, j, Origins(p, Orders(p, b))[j])
<1>1. PICK S : S = Orders(p, b)
  OBVIOUS
<1>2. Made(Batch(p, b)[1].rows, p, 1, Origins(p, S)[1])
  BY <1>1 DEF Batch, Copy, Origins, Row, Made
<1>3. Made(Batch(p, b)[2].rows, p, 2, Origins(p, S)[2])
  BY <1>1 DEF Batch, Copy, Origins, Row, Made
<1>4. Made(Batch(p, b)[3].rows, p, 3, Origins(p, S)[3])
  BY <1>1 DEF Batch, Copy, Origins, Row, Made
<1>5. Made(Batch(p, b)[4].rows, p, 4, Origins(p, S)[4])
  BY <1>1 DEF Batch, Copy, Origins, Row, Made
<1>6. Made(Batch(p, b)[5].rows, p, 5, Origins(p, S)[5])
  BY <1>1 DEF Batch, Copy, Origins, Row, Made
<1> QED
  BY <1>1, <1>2, <1>3, <1>4, <1>5, <1>6, FiveOf, Zenon

\* the order a row is made for
OrderOf(j, i) == IF j = 2 \/ j = 5 THEN i[1] ELSE i

(* A row is made for a set of orders exactly when its own order is one of   *)
(* them.                                                                    *)
LEMMA OriginOrder ==
  ASSUME NEW p, NEW j \in 1..5, NEW S, NEW i \in Origins(p, S)[j]
  PROVE  OrderOf(j, i) \in S /\ \A T : OrderOf(j, i) \in T => i \in Origins(p, T)[j]
<1>1. CASE j = 1
  BY <1>1 DEF Origins, OrderOf
<1>2. CASE j = 2
  BY <1>2 DEF Origins, OrderOf
<1>3. CASE j = 3
  BY <1>3 DEF Origins, OrderOf
<1>4. CASE j = 4
  BY <1>4 DEF Origins, OrderOf
<1>5. CASE j = 5
  BY <1>5 DEF Origins, OrderOf
<1> QED
  BY <1>1, <1>2, <1>3, <1>4, <1>5, FiveOf

(* No two rows of a table have the same key, whatever orders they are made  *)
(* for.                                                                     *)
LEMMA RowKeys ==
  ASSUME NEW p \in Profile, NEW j \in 1..5, NEW i \in Origins(p, 1..p.orders)[j],
         NEW k \in Origins(p, 1..p.orders)[j], Row(p, j, i).id = Row(p, j, k).id
  PROVE  i = k
<1>0. 1 \in 1..p.items
  BY DEF Profile
<1>1. CASE j = 1
  BY <1>1 DEF Origins, Row, OrderRow
<1>2. CASE j = 2
  <2>1. PICK o \in 1..p.orders, l \in 1..p.items : i = <<o, l>>
    BY <1>2 DEF Origins
  <2>2. PICK u \in 1..p.orders, m \in 1..p.items : k = <<u, m>>
    BY <1>2 DEF Origins
  <2>3. ItemRow(p, o, l).id = ItemRow(p, u, m).id
    BY <1>2, <2>1, <2>2 DEF Row
  <2>4. o = u /\ l = m
    BY <2>3, SeedKeys
  <2> QED
    BY <2>1, <2>2, <2>4
<1>3. CASE j = 3
  BY <1>3 DEF Origins, Row, PaymentRow
<1>4. CASE j = 4
  <2>1. i \in 1..p.orders /\ k \in 1..p.orders /\ Refunded(i) /\ Refunded(k)
    BY <1>4 DEF Origins
  <2>2. RefundRow(p, i).id = RefundRow(p, k).id
    BY <1>4 DEF Row
  <2> QED
    BY <1>0, <2>1, <2>2, SeedKeys
<1>5. CASE j = 5
  <2>1. PICK o \in 1..p.orders, l \in RefundedLines(p) : i = <<o, l>> /\ Refunded(o)
    BY <1>5 DEF Origins
  <2>2. PICK u \in 1..p.orders, m \in RefundedLines(p) : k = <<u, m>> /\ Refunded(u)
    BY <1>5 DEF Origins
  <2>3. RefundItemRow(p, o, l).id = RefundItemRow(p, u, m).id
    BY <1>5, <2>1, <2>2 DEF Row
  <2>4. l \in 1..p.items /\ m \in 1..p.items
    BY DEF RefundedLines, Profile
  <2>5. o = u /\ l = m
    BY <2>1, <2>2, <2>3, <2>4, SeedKeys
  <2> QED
    BY <2>1, <2>2, <2>5
<1> QED
  BY <1>1, <1>2, <1>3, <1>4, <1>5, FiveOf

(* The keys of a batch are those of the rows that are made for it.          *)
LEMMA KeysOfBatch ==
  ASSUME NEW p, NEW b, NEW j \in 1..5
  PROVE  /\ \A x \in Keys(Batch(p, b)[j]) : \E i \in Origins(p, Orders(p, b))[j] : x = Row(p, j, i).id
         /\ \A i \in Origins(p, Orders(p, b))[j] : Row(p, j, i).id \in Keys(Batch(p, b)[j])
<1>1. PICK copy, I : copy = Batch(p, b)[j] /\ I = Origins(p, Orders(p, b))[j]
  OBVIOUS
<1>2. Made(copy.rows, p, j, I)
  BY <1>1, BatchRows
<1>3. /\ \A x \in Keys(copy) : \E i \in I : x = Row(p, j, i).id
      /\ \A i \in I : Row(p, j, i).id \in Keys(copy)
  BY <1>2 DEF Keys, Made
<1> QED
  BY <1>1, <1>3

-----------------------------------------------------------------------------
(* The copies of the batches are accepted.                                  *)

(* What a batch is made of is part of what the whole data set is made of.   *)
LEMMA OriginsWithin ==
  ASSUME NEW p \in Profile, NEW b \in 1..NumBatches(p), NEW j \in 1..5,
         NEW i \in Origins(p, Orders(p, b))[j]
  PROVE  OrderOf(j, i) \in Orders(p, b) /\ i \in Origins(p, 1..p.orders)[j]
<1>1. OrderOf(j, i) \in Orders(p, b)
  BY OriginOrder
<1>2. OrderOf(j, i) \in 1..p.orders
  BY <1>1, BatchBounds
<1> QED
  BY <1>1, <1>2, OriginOrder

(* Two batches have no key of a table in common.                            *)
LEMMA BatchesApart ==
  ASSUME NEW p \in Profile, NEW b \in 1..NumBatches(p), NEW c \in 1..NumBatches(p),
         NEW j \in 1..5, b # c
  PROVE  Keys(Batch(p, c)[j]) \cap Keys(Batch(p, b)[j]) = {}
<1> SUFFICES ASSUME NEW x, x \in Keys(Batch(p, c)[j]), x \in Keys(Batch(p, b)[j])
             PROVE  FALSE
  OBVIOUS
<1>1. PICK i : i \in Origins(p, Orders(p, b))[j] /\ x = Row(p, j, i).id
  BY KeysOfBatch
<1>2. PICK k : k \in Origins(p, Orders(p, c))[j] /\ x = Row(p, j, k).id
  BY KeysOfBatch, SMTT(30)
<1>3. i \in Origins(p, 1..p.orders)[j] /\ OrderOf(j, i) \in Orders(p, b)
  BY <1>1, OriginsWithin
<1>4. k \in Origins(p, 1..p.orders)[j] /\ OrderOf(j, k) \in Orders(p, c)
  BY <1>2, OriginsWithin
<1>5. i = k
  BY <1>1, <1>2, <1>3, <1>4, RowKeys
<1>6. OrderOf(j, i) \in Orders(p, b) /\ OrderOf(j, i) \in Orders(p, c)
  BY <1>3, <1>4, <1>5
<1> QED
  BY <1>6, OrderBatch

(* When a table of a batch is copied, the tables before it in the batch are *)
(* there, and so are its own rows.                                          *)
LEMMA KnownBatch ==
  ASSUME NEW p, NEW b \in 1..NumBatches(p), NEW j \in 1..5, NEW i \in 1..5, i <= j
  PROVE  Keys(Batch(p, b)[i]) \subseteq Known(p, <<b, j>>, Batch(p, b)[i].table)
<1>1. <<b, i>> \in Of(Copies(p), Batch(p, b)[i].table)
  BY BatchOf
<1>2. Copies(p)[<<b, i>>] = Batch(p, b)[i]
  BY BatchPlace
<1>3. ~Precedes(<<b, j>>, <<b, i>>)
  BY DEF Precedes
<1> QED
  BY <1>1, <1>2, <1>3, Zenon DEF Known

(* So are all the customers, stores, sales channels and stock keeping       *)
(* units.                                                                   *)
LEMMA KnownFixtures ==
  ASSUME NEW p \in Profile, NEW b \in 1..NumBatches(p), NEW j \in 1..5
  PROVE  /\ 1..20 \subseteq Known(p, <<b, j>>, "dim_customer")
         /\ 1..3 \subseteq Known(p, <<b, j>>, "dim_store")
         /\ 1..2 \subseteq Known(p, <<b, j>>, "dim_sales_channel")
         /\ 1..6 \subseteq Known(p, <<b, j>>, "dim_sku")
<1>1. PICK q : q = <<b, j>>
  OBVIOUS
<1>2. \A k \in 1..19 : ~Precedes(q, <<0, k>>)
  <2>1. b \in Nat \ {0}
    BY BatchBounds
  <2> QED
    BY <1>1, <2>1 DEF Precedes
<1>3. /\ Fixture[11].table = "dim_customer" /\ Fixture[3].table = "dim_store"
      /\ Fixture[6].table = "dim_sales_channel" /\ Fixture[10].table = "dim_sku"
  BY Fixture11, Fixture3, Fixture6, Fixture10 DEF IsFixture
<1>4. 11 \in 1..19 /\ 3 \in 1..19 /\ 6 \in 1..19 /\ 10 \in 1..19
  OBVIOUS
<1>5. /\ Keys(Fixture[11]) = 1..20 /\ Keys(Fixture[3]) = 1..3
      /\ Keys(Fixture[6]) = 1..2 /\ Keys(Fixture[10]) = 1..6
  <2>1. \A k \in 1..19 : Keys(Fixture[k]) = 1..Size[k]
    BY FixtureKeys, Zenon
  <2>2. Size[11] = 20 /\ Size[3] = 3 /\ Size[6] = 2 /\ Size[10] = 6
    BY SMT DEF Size
  <2> QED
    BY <1>4, <2>1, <2>2, Zenon
<1>6. /\ Keys(Fixture[11]) \subseteq Known(p, q, Fixture[11].table)
      /\ Keys(Fixture[3]) \subseteq Known(p, q, Fixture[3].table)
      /\ Keys(Fixture[6]) \subseteq Known(p, q, Fixture[6].table)
      /\ Keys(Fixture[10]) \subseteq Known(p, q, Fixture[10].table)
  BY <1>2, <1>4, KnownFixture
<1> QED
  BY <1>1, <1>3, <1>5, <1>6

(* It is enough that the references of the rows of a batch are null or such *)
(* keys one by one.                                                         *)
LEMMA MadeKept ==
  ASSUME NEW p, NEW j, NEW rows, NEW I, Made(rows, p, j, I), NEW c, NEW name, c.name = name,
         NEW keys,
         \A i \in I : \/ Row(p, j, i).refs[name] = Null /\ c.nullable
                      \/ Row(p, j, i).refs[name] \in keys
  PROVE  Kept(rows, c, keys)
BY DEF Made, Kept

(* The name, the table and the null of a reference.                         *)
LEMMA RefFields ==
  ASSUME NEW name, NEW to
  PROVE  /\ Ref(name, to).name = name /\ Ref(name, to).to = to
         /\ Opt(name, to).name = name /\ Opt(name, to).to = to /\ Opt(name, to).nullable
BY DEF Ref, Opt

(* Every reference of a batch is to a fixture, or to a row of the same      *)
(* batch that is there by then, or null where it may be.                    *)
LEMMA BatchKept ==
  ASSUME NEW p \in Profile, NEW b \in 1..NumBatches(p), NEW j \in 1..5,
         NEW c \in References(Batch(p, b)[j].table)
  PROVE  Kept(Batch(p, b)[j].rows, c, Known(p, <<b, j>>, c.to))
<1>1. PICK S : S = Orders(p, b)
  OBVIOUS
<1>2. S \subseteq 1..p.orders
  BY <1>1, BatchBounds
<1>3. PICK rows, I : rows = Batch(p, b)[j].rows /\ I = Origins(p, S)[j] /\ Made(rows, p, j, I)
  BY <1>1, BatchRows
<1>4. PICK q : q = <<b, j>>
  OBVIOUS
<1>5. 1 \in 1..p.items /\ RefundedLines(p) \subseteq 1..p.items
  BY DEF RefundedLines, Profile
\* what an order, a line and a refund of the batch are known by
<1>6. ASSUME NEW o \in S PROVE o \in Keys(Batch(p, b)[1])
  BY <1>1, KeysOfBatch DEF Origins, Row, OrderRow
<1>7. ASSUME NEW o \in S, NEW l \in 1..p.items
      PROVE  ItemId(p, o, l) \in Keys(Batch(p, b)[2])
  <2>1. <<o, l>> \in Origins(p, S)[2] /\ Row(p, 2, <<o, l>>).id = ItemId(p, o, l)
    BY DEF Origins, Row, ItemRow
  <2> QED
    BY <1>1, <2>1, KeysOfBatch
<1>8. ASSUME NEW o \in S, Refunded(o) PROVE RefundId(p, o) \in Keys(Batch(p, b)[4])
  <2>1. o \in Origins(p, S)[4] /\ Row(p, 4, o).id = RefundId(p, o)
    BY <1>8 DEF Origins, Row, RefundRow
  <2> QED
    BY <1>1, <2>1, KeysOfBatch
<1>9. ASSUME NEW o \in S, NEW l \in 1..p.items
      PROVE  /\ OrderRow(p, o).refs["customer_id"] \in 1..20 \cup {Null}
             /\ OrderRow(p, o).refs["store_id"] \in 1..3
             /\ OrderRow(p, o).refs["channel_id"] \in 1..2
             /\ ItemRow(p, o, l).refs["sku_id"] \in 1..6
  <2>1. o \in Nat /\ p.seed \in Nat /\ l \in Nat
    BY <1>2 DEF Profile
  <2>2. Customer(p, o) \in 1..20 \cup {Null}
    BY <2>1 DEF Customer, Null
  <2>3. (o % 3) + 1 \in 1..3 /\ (o % 2) + 1 \in 1..2 /\ Sku(p, o, l) \in 1..6
    BY <2>1 DEF Sku
  <2> QED
    BY <2>2, <2>3 DEF OrderRow, ItemRow
<1>10. CASE j = 1
  <2>1. I = S /\ \A o \in S : Row(p, j, o) = OrderRow(p, o)
    BY <1>3, <1>10 DEF Origins, Row
  <2>2. References("fact_order") = {Opt("customer_id", "dim_customer"), Opt("store_id", "dim_store"),
                                    Ref("channel_id", "dim_sales_channel")}
    BY FixtureReferences
  <2>3. Batch(p, b)[j].table = "fact_order"
    BY <1>10, BatchTables
  <2>4. CASE c = Opt("customer_id", "dim_customer")
    <3>1. c.name = "customer_id" /\ c.to = "dim_customer" /\ c.nullable
      BY <2>4, RefFields
    <3>2. \A o \in I : \/ Row(p, j, o).refs["customer_id"] = Null /\ c.nullable
                       \/ Row(p, j, o).refs["customer_id"] \in 1..20
      BY <1>5, <1>9, <2>1, <3>1
    <3>3. Kept(rows, c, 1..20)
      BY <1>3, <3>1, <3>2, MadeKept
    <3>4. 1..20 \subseteq Known(p, q, c.to)
      BY <1>4, <3>1, KnownFixtures
    <3> QED
      BY <1>3, <1>4, <3>3, <3>4, KeptMore
  <2>5. CASE c = Opt("store_id", "dim_store")
    <3>1. c.name = "store_id" /\ c.to = "dim_store"
      BY <2>5, RefFields
    <3>2. \A o \in I : Row(p, j, o).refs["store_id"] \in 1..3
      BY <1>5, <1>9, <2>1, <3>1
    <3>3. Kept(rows, c, 1..3)
      BY <1>3, <3>1, <3>2, MadeKept
    <3>4. 1..3 \subseteq Known(p, q, c.to)
      BY <1>4, <3>1, KnownFixtures
    <3> QED
      BY <1>3, <1>4, <3>3, <3>4, KeptMore
  <2>6. CASE c = Ref("channel_id", "dim_sales_channel")
    <3>1. c.name = "channel_id" /\ c.to = "dim_sales_channel"
      BY <2>6, RefFields
    <3>2. \A o \in I : Row(p, j, o).refs["channel_id"] \in 1..2
      BY <1>5, <1>9, <2>1, <3>1
    <3>3. Kept(rows, c, 1..2)
      BY <1>3, <3>1, <3>2, MadeKept
    <3>4. 1..2 \subseteq Known(p, q, c.to)
      BY <1>4, <3>1, KnownFixtures
    <3> QED
      BY <1>3, <1>4, <3>3, <3>4, KeptMore
  <2> QED
    BY <2>2, <2>3, <2>4, <2>5, <2>6
<1>11. ASSUME 1 <= j, c = Ref("order_id", "fact_order"),
              \A i \in I : Row(p, j, i).refs["order_id"] \in S
       PROVE  Kept(rows, c, Known(p, q, c.to))
  <2>1. c.name = "order_id" /\ c.to = "fact_order"
    BY <1>11, RefFields
  <2>2. \A i \in I : Row(p, j, i).refs["order_id"] \in Keys(Batch(p, b)[1])
    BY <1>6, <1>11
  <2>3. Kept(rows, c, Keys(Batch(p, b)[1]))
    BY <1>3, <2>1, <2>2, MadeKept
  <2>4. Batch(p, b)[1].table = c.to
    BY <2>1, BatchTables
  <2>5. Keys(Batch(p, b)[1]) \subseteq Known(p, q, c.to)
    <3>1. 1 \in 1..5 /\ 1 <= j
      BY <1>11
    <3> QED
      BY <1>4, <2>4, <3>1, KnownBatch
  <2> QED
    BY <2>3, <2>5, KeptMore
<1>12. CASE j = 2
  <2>1. \A i \in I : \E o \in S, l \in 1..p.items : i = <<o, l>> /\ Row(p, j, i) = ItemRow(p, o, l)
    BY <1>3, <1>12 DEF Origins, Row
  <2>2. References("fact_order_item") = {Ref("order_id", "fact_order"), Ref("sku_id", "dim_sku")}
    BY FixtureReferences
  <2>3. Batch(p, b)[j].table = "fact_order_item"
    BY <1>12, BatchTables
  <2>4. CASE c = Ref("order_id", "fact_order")
    <3>1. \A i \in I : Row(p, j, i).refs["order_id"] \in S
      BY <2>1 DEF ItemRow
    <3> QED
      BY <1>3, <1>4, <1>11, <1>12, <2>4, <3>1
  <2>5. CASE c = Ref("sku_id", "dim_sku")
    <3>1. c.name = "sku_id" /\ c.to = "dim_sku"
      BY <2>5, RefFields
    <3>2. \A i \in I : Row(p, j, i).refs["sku_id"] \in 1..6
      BY <1>9, <2>1
    <3>3. Kept(rows, c, 1..6)
      BY <1>3, <3>1, <3>2, MadeKept
    <3>4. 1..6 \subseteq Known(p, q, c.to)
      BY <1>4, <3>1, KnownFixtures
    <3> QED
      BY <1>3, <1>4, <3>3, <3>4, KeptMore
  <2> QED
    BY <2>2, <2>3, <2>4, <2>5
<1>13. CASE j = 3
  <2>1. \A i \in I : Row(p, j, i).refs["order_id"] \in S
    BY <1>3, <1>13 DEF Origins, Row, PaymentRow
  <2>2. References("fact_payment") = {Ref("order_id", "fact_order")}
    BY FixtureReferences
  <2>3. Batch(p, b)[j].table = "fact_payment"
    BY <1>13, BatchTables
  <2> QED
    BY <1>3, <1>4, <1>11, <1>13, <2>1, <2>2, <2>3
<1>14. CASE j = 4
  <2>1. \A i \in I : Row(p, j, i).refs["order_id"] \in S
    BY <1>3, <1>14 DEF Origins, Row, RefundRow
  <2>2. References("fact_refund") = {Ref("order_id", "fact_order")}
    BY FixtureReferences
  <2>3. Batch(p, b)[j].table = "fact_refund"
    BY <1>14, BatchTables
  <2> QED
    BY <1>3, <1>4, <1>11, <1>14, <2>1, <2>2, <2>3
<1>15. CASE j = 5
  <2>1. \A i \in I : \E o \in S, l \in RefundedLines(p) :
          i = <<o, l>> /\ Refunded(o) /\ Row(p, j, i) = RefundItemRow(p, o, l)
    BY <1>3, <1>15 DEF Origins, Row
  <2>2. References("fact_refund_item") = {Ref("refund_id", "fact_refund"),
                                          Ref("order_item_id", "fact_order_item")}
    BY FixtureReferences
  <2>3. Batch(p, b)[j].table = "fact_refund_item"
    BY <1>15, BatchTables
  <2>4. CASE c = Ref("refund_id", "fact_refund")
    <3>1. c.name = "refund_id" /\ c.to = "fact_refund"
      BY <2>4, RefFields
    <3>2. \A i \in I : Row(p, j, i).refs["refund_id"] \in Keys(Batch(p, b)[4])
      BY <1>8, <2>1 DEF RefundItemRow
    <3>3. Kept(rows, c, Keys(Batch(p, b)[4]))
      BY <1>3, <3>1, <3>2, MadeKept
    <3>4. Keys(Batch(p, b)[4]) \subseteq Known(p, q, c.to)
      <4>1. Batch(p, b)[4].table = c.to
        BY <3>1, BatchTables
      <4>2. 4 \in 1..5 /\ 4 <= j
        BY <1>15
      <4> QED
        BY <1>4, <4>1, <4>2, KnownBatch
    <3> QED
      BY <1>3, <1>4, <3>3, <3>4, KeptMore
  <2>5. CASE c = Ref("order_item_id", "fact_order_item")
    <3>1. c.name = "order_item_id" /\ c.to = "fact_order_item"
      BY <2>5, RefFields
    <3>2. \A i \in I : Row(p, j, i).refs["order_item_id"] \in Keys(Batch(p, b)[2])
      BY <1>5, <1>7, <2>1 DEF RefundItemRow
    <3>3. Kept(rows, c, Keys(Batch(p, b)[2]))
      BY <1>3, <3>1, <3>2, MadeKept
    <3>4. Keys(Batch(p, b)[2]) \subseteq Known(p, q, c.to)
      <4>1. Batch(p, b)[2].table = c.to
        BY <3>1, BatchTables
      <4>2. 2 \in 1..5 /\ 2 <= j
        BY <1>15
      <4> QED
        BY <1>4, <4>1, <4>2, KnownBatch
    <3> QED
      BY <1>3, <1>4, <3>3, <3>4, KeptMore
  <2> QED
    BY <2>2, <2>3, <2>4, <2>5
<1> QED
  BY <1>10, <1>12, <1>13, <1>14, <1>15, FiveOf

(* Every copy of a batch is accepted.                                       *)
LEMMA BatchAccepted ==
  ASSUME NEW p \in Profile, NEW b \in 1..NumBatches(p), NEW j \in 1..5
  PROVE  CopyAccepted(Copies(p), <<b, j>>)
<1>1. PICK q, copy : q = <<b, j>> /\ copy = Batch(p, b)[j]
  OBVIOUS
<1>2. Copies(p)[q] = copy
  BY <1>1, BatchPlace
<1>3. ASSUME NEW i \in DOMAIN copy.rows, NEW k \in DOMAIN copy.rows,
             copy.rows[i].id = copy.rows[k].id
      PROVE  i = k
  <2>1. PICK I : I = Origins(p, Orders(p, b))[j]
    OBVIOUS
  <2>2. Made(copy.rows, p, j, I)
    BY <1>1, <2>1, BatchRows
  <2>3. i \in I /\ k \in I /\ Row(p, j, i).id = Row(p, j, k).id
    BY <1>3, <2>2 DEF Made
  <2>4. i \in Origins(p, 1..p.orders)[j] /\ k \in Origins(p, 1..p.orders)[j]
    BY <2>1, <2>3, OriginsWithin
  <2> QED
    BY <2>3, <2>4, RowKeys
<1>4. ASSUME NEW r \in Of(Copies(p), copy.table), Precedes(r, q)
      PROVE  Keys(Copies(p)[r]) \cap Keys(copy) = {}
  <2>1. PICK c \in 1..NumBatches(p) : r = <<c, j>>
    BY <1>1, <1>4, BatchOf
  <2>2. b # c
    <3>1. b \in Int /\ c \in Int /\ j \in Int
      BY BatchBounds
    <3> QED
      BY <1>1, <1>4, <2>1, <3>1 DEF Precedes
  <2>3. Copies(p)[r] = Batch(p, c)[j]
    BY <2>1, BatchPlace
  <2> QED
    BY <1>1, <2>2, <2>3, BatchesApart
<1>5. \A c \in References(copy.table) : Kept(copy.rows, c, Known(p, q, c.to))
  BY <1>1, BatchKept
<1>6. CopyAccepted(Copies(p), q)
  BY <1>2, <1>3, <1>4, <1>5, AcceptedBy
<1> QED
  BY <1>1, <1>6

(* PostgreSQL accepts all the copies of every profile: no key is taken      *)
(* twice, within a batch or across batches, and every reference is to a row *)
(* that is there at the end of its COPY                                     *)
(* (datasets/generator/database.py:218).                                    *)
THEOREM SeedCopied ==
  ASSUME NEW p \in Profile
  PROVE  CopiesAccepted(Copies(p))
<1> SUFFICES ASSUME NEW q \in DOMAIN Copies(p) PROVE CopyAccepted(Copies(p), q)
  BY DEF CopiesAccepted
<1>1. CASE \E k \in 1..19 : q = <<0, k>>
  BY <1>1, FixtureAccepted
<1>2. CASE \E b \in 1..NumBatches(p), j \in 1..5 : q = <<b, j>>
  BY <1>2, BatchAccepted
<1> QED
  BY <1>1, <1>2, PlaceOf

-----------------------------------------------------------------------------
(* The sums that the gates compare.                                         *)

(* Sums over a function: of the net amounts of lines,                       *)
LEMMA NetSum ==
  ASSUME NEW T, NEW f, f = [i \in T |-> i.net]
  PROVE  MapThenSumSet(LAMBDA i : i.net, T) = Sum(f, T)
BY DEF Sum, MapThenSumSet, MapThenFoldSet

(* of the amounts of refunded lines,                                        *)
LEMMA AmountSum ==
  ASSUME NEW T, NEW f, f = [i \in T |-> i.amount]
  PROVE  MapThenSumSet(LAMBDA i : i.amount, T) = Sum(f, T)
BY DEF Sum, MapThenSumSet, MapThenFoldSet

(* of the net amounts an order is expected to have,                         *)
LEMMA LineSum ==
  ASSUME NEW p, NEW o, NEW T, NEW f, f = [l \in T |-> Net(p, o, l)]
  PROVE  MapThenSumSet(LAMBDA l : Net(p, o, l), T) = Sum(f, T)
BY DEF Sum, MapThenSumSet, MapThenFoldSet

\* the rows a refund has in the join of lines and refunded lines
JoinedRows(items, refundItems, r) ==
  Cardinality({i \in items : i.refs.order_id = r.refs.order_id})
    * Cardinality({i \in refundItems : i.refs.refund_id = r.id})

(* and of the rows that a refund has in the join.                           *)
LEMMA JoinSum ==
  ASSUME NEW items, NEW refundItems, NEW T, NEW f, f = [r \in T |-> JoinedRows(items, refundItems, r)]
  PROVE  MapThenSumSet(LAMBDA r : Cardinality({i \in items : i.refs.order_id = r.refs.order_id})
                                  * Cardinality({i \in refundItems : i.refs.refund_id = r.id}), T) = Sum(f, T)
BY DEF Sum, MapThenSumSet, MapThenFoldSet, JoinedRows

-----------------------------------------------------------------------------
(* The rows of the whole data set, one for each thing they are made for.    *)

\* the rows of a table once everything is copied, and what they are made of
AllRows(p, table) == UNION {Range(Copies(p)[q].rows) : q \in Of(Copies(p), table)}
Whole(p, j) == Origins(p, 1..p.orders)[j]

(* A function that is one to one and onto is a bijection.                   *)
LEMMA OneToOne ==
  ASSUME NEW S, NEW T, NEW m \in [S -> T], \A x, y \in S : m[x] = m[y] => x = y,
         \A t \in T : \E x \in S : m[x] = t
  PROVE  m \in Bijection(S, T)
BY DEF Bijection, Injection, IsInjective, Surjection

(* An ample profile has a first batch.                                      *)
LEMMA SomeBatch ==
  ASSUME NEW p, Ample(p)
  PROVE  p \in Profile /\ 1 \in 1..NumBatches(p)
<1>1. p \in Profile /\ 1 \in 1..p.orders
  BY DEF Ample, Profile
<1>2. PICK b \in 1..NumBatches(p) : 1 \in Orders(p, b)
  BY <1>1, OrderBatch
<1>3. NumBatches(p) \in Nat
  BY <1>1, BatchBounds
<1> QED
  BY <1>1, <1>2, <1>3

(* The rows of a table are those made for all the orders.                   *)
LEMMA AllOf ==
  ASSUME NEW p, Ample(p), NEW j \in 1..5, NEW table, table = Batch(p, 1)[j].table
  PROVE  /\ \A x \in AllRows(p, table) : \E i \in Whole(p, j) : x = Row(p, j, i)
         /\ \A i \in Whole(p, j) : Row(p, j, i) \in AllRows(p, table)
<1>1. p \in Profile /\ 1 \in 1..NumBatches(p)
  BY SomeBatch
<1>2. Of(Copies(p), table) = {<<c, j>> : c \in 1..NumBatches(p)}
  BY <1>1, BatchOf
<1>3. ASSUME NEW x \in AllRows(p, table) PROVE \E i \in Whole(p, j) : x = Row(p, j, i)
  <2>1. PICK c \in 1..NumBatches(p) : x \in Range(Copies(p)[<<c, j>>].rows)
    BY <1>2 DEF AllRows
  <2>2. Copies(p)[<<c, j>>] = Batch(p, c)[j]
    BY BatchPlace
  <2>3. PICK rows, I : rows = Batch(p, c)[j].rows /\ I = Origins(p, Orders(p, c))[j]
    OBVIOUS
  <2>4. Made(rows, p, j, I) /\ x \in Range(rows)
    BY <2>1, <2>2, <2>3, BatchRows
  <2>5. PICK i \in I : x = Row(p, j, i)
    BY <2>4 DEF Made, Range
  <2>6. i \in Whole(p, j)
    BY <1>1, <2>3, <2>5, OriginsWithin DEF Whole
  <2> QED
    BY <2>5, <2>6
<1>4. ASSUME NEW i \in Whole(p, j) PROVE Row(p, j, i) \in AllRows(p, table)
  <2>1. OrderOf(j, i) \in 1..p.orders
    BY OriginOrder DEF Whole
  <2>2. PICK c \in 1..NumBatches(p) : OrderOf(j, i) \in Orders(p, c)
    BY <1>1, <2>1, OrderBatch
  <2>3. PICK rows, I : rows = Batch(p, c)[j].rows /\ I = Origins(p, Orders(p, c))[j]
    OBVIOUS
  <2>4. i \in I
    BY <2>2, <2>3, OriginOrder DEF Whole
  <2>5. Made(rows, p, j, I)
    BY <2>3, BatchRows
  <2>6. Row(p, j, i) \in Range(rows)
    BY <2>4, <2>5 DEF Made, Range
  <2>7. Copies(p)[<<c, j>>].rows = rows /\ <<c, j>> \in Of(Copies(p), table)
    BY <1>2, <2>3, BatchPlace
  <2> QED
    BY <2>6, <2>7 DEF AllRows
<1> QED
  BY <1>3, <1>4

(* Each of them is made once.                                               *)
LEMMA AllOnce ==
  ASSUME NEW p, Ample(p), NEW j \in 1..5, NEW table, table = Batch(p, 1)[j].table
  PROVE  [i \in Whole(p, j) |-> Row(p, j, i)] \in Bijection(Whole(p, j), AllRows(p, table))
<1>1. PICK I, T : I = Whole(p, j) /\ T = AllRows(p, table)
  OBVIOUS
<1>2. PICK m : m = [i \in I |-> Row(p, j, i)]
  OBVIOUS
<1>3. m \in [I -> T] /\ \A t \in T : \E i \in I : m[i] = t
  BY <1>1, <1>2, AllOf
<1>4. ASSUME NEW i \in I, NEW k \in I, m[i] = m[k] PROVE i = k
  <2>1. Row(p, j, i).id = Row(p, j, k).id
    BY <1>2, <1>4
  <2> QED
    BY <1>1, <2>1, RowKeys DEF Ample, Whole
<1> QED
  BY <1>1, <1>2, <1>3, <1>4, OneToOne

(* The tables of the batches by name.                                       *)
LEMMA BatchTableNames ==
  ASSUME NEW p
  PROVE  /\ "fact_order" = Batch(p, 1)[1].table /\ "fact_order_item" = Batch(p, 1)[2].table
         /\ "fact_payment" = Batch(p, 1)[3].table /\ "fact_refund" = Batch(p, 1)[4].table
         /\ "fact_refund_item" = Batch(p, 1)[5].table
BY BatchTables

(* What each of the five tables is made of.                                 *)
LEMMA WholeIs ==
  ASSUME NEW p, Ample(p)
  PROVE  /\ Whole(p, 1) = 1..p.orders
         /\ Whole(p, 2) = (1..p.orders) \X (1..p.items)
         /\ Whole(p, 3) = {o \in 1..p.orders : ~Cancelled(o)}
         /\ Whole(p, 4) = {o \in 1..p.orders : Refunded(o)}
         /\ Whole(p, 5) = Whole(p, 4) \X (1..2)
<1>1. RefundedLines(p) = 1..2
  BY DEF RefundedLines, Ample, Profile
<1> QED
  BY <1>1 DEF Whole, Origins

(* The lines of an order are as many as its profile says, and each is there *)
(* once.                                                                    *)
LEMMA ItemsOfOrder ==
  ASSUME NEW p, Ample(p), NEW o \in 1..p.orders
  PROVE  [l \in 1..p.items |-> ItemRow(p, o, l)]
           \in Bijection(1..p.items, {i \in AllRows(p, "fact_order_item") : i.refs.order_id = o})
<1>1. PICK T, m : /\ T = {i \in AllRows(p, "fact_order_item") : i.refs.order_id = o}
                  /\ m = [l \in 1..p.items |-> ItemRow(p, o, l)]
  OBVIOUS
<1>2. p \in Profile
  BY DEF Ample
<1>3. ASSUME NEW l \in 1..p.items PROVE m[l] \in T
  <2>1. <<o, l>> \in Whole(p, 2) /\ Row(p, 2, <<o, l>>) = ItemRow(p, o, l)
    BY WholeIs DEF Row
  <2>2. ItemRow(p, o, l) \in AllRows(p, "fact_order_item")
    BY <2>1, AllOf, BatchTableNames
  <2>3. ItemRow(p, o, l).refs.order_id = o
    BY DEF ItemRow
  <2> QED
    BY <1>1, <2>2, <2>3
<1>4. ASSUME NEW t \in T PROVE \E l \in 1..p.items : m[l] = t
  <2>1. t \in AllRows(p, "fact_order_item") /\ t.refs.order_id = o
    BY <1>1
  <2>2. PICK i \in Whole(p, 2) : t = Row(p, 2, i)
    BY <2>1, AllOf, BatchTableNames
  <2>3. PICK u \in 1..p.orders, l \in 1..p.items : i = <<u, l>>
    BY <2>2, WholeIs
  <2>4. t = ItemRow(p, u, l)
    BY <2>2, <2>3 DEF Row
  <2>5. u = o
    BY <2>1, <2>4 DEF ItemRow
  <2> QED
    BY <1>1, <2>4, <2>5
<1>5. ASSUME NEW l \in 1..p.items, NEW k \in 1..p.items, m[l] = m[k] PROVE l = k
  <2>1. ItemRow(p, o, l).id = ItemRow(p, o, k).id
    BY <1>1, <1>5
  <2> QED
    BY <1>2, <2>1, SeedKeys
<1>6. m \in [1..p.items -> T]
  BY <1>1, <1>3
<1> QED
  BY <1>1, <1>4, <1>5, <1>6, OneToOne, ZenonT(60)

(* A refund has two lines.                                                  *)
LEMMA LinesOfRefund ==
  ASSUME NEW p, Ample(p), NEW o \in Whole(p, 4)
  PROVE  [l \in 1..2 |-> RefundItemRow(p, o, l)]
           \in Bijection(1..2, {i \in AllRows(p, "fact_refund_item") : i.refs.refund_id = RefundId(p, o)})
<1>1. PICK T, m : /\ T = {i \in AllRows(p, "fact_refund_item") : i.refs.refund_id = RefundId(p, o)}
                  /\ m = [l \in 1..2 |-> RefundItemRow(p, o, l)]
  OBVIOUS
<1>2. p \in Profile /\ RefundedLines(p) = 1..2 /\ 1..2 \subseteq 1..p.items
  BY DEF Ample, RefundedLines, Profile
<1>0. o \in 1..p.orders /\ Refunded(o)
  BY WholeIs
<1>3. ASSUME NEW l \in 1..2 PROVE m[l] \in T
  <2>1. <<o, l>> \in Whole(p, 5) /\ Row(p, 5, <<o, l>>) = RefundItemRow(p, o, l)
    BY WholeIs DEF Row
  <2>2. RefundItemRow(p, o, l) \in AllRows(p, "fact_refund_item")
    BY <2>1, AllOf, BatchTableNames
  <2>3. RefundItemRow(p, o, l).refs.refund_id = RefundId(p, o)
    BY DEF RefundItemRow
  <2> QED
    BY <1>1, <2>2, <2>3
<1>4. ASSUME NEW t \in T PROVE \E l \in 1..2 : m[l] = t
  <2>1. t \in AllRows(p, "fact_refund_item") /\ t.refs.refund_id = RefundId(p, o)
    BY <1>1
  <2>2. PICK i \in Whole(p, 5) : t = Row(p, 5, i)
    BY <2>1, AllOf, BatchTableNames
  <2>3. PICK u \in Whole(p, 4), l \in 1..2 : i = <<u, l>>
    BY <2>2, WholeIs
  <2>4. t = RefundItemRow(p, u, l)
    BY <2>2, <2>3 DEF Row
  <2>5. RefundRow(p, u).id = RefundRow(p, o).id
    BY <2>1, <2>4 DEF RefundItemRow, RefundRow
  <2>6. u \in 1..p.orders /\ Refunded(u) /\ 1 \in 1..p.items
    BY <1>2, WholeIs
  <2>7. u = o
    BY <1>0, <1>2, <2>5, <2>6, SeedKeys
  <2> QED
    BY <1>1, <2>4, <2>7
<1>5. ASSUME NEW l \in 1..2, NEW k \in 1..2, m[l] = m[k] PROVE l = k
  <2>1. RefundItemRow(p, o, l).id = RefundItemRow(p, o, k).id
    BY <1>1, <1>5
  <2>2. l \in 1..p.items /\ k \in 1..p.items /\ l \in RefundedLines(p) /\ k \in RefundedLines(p)
    BY <1>2
  <2> QED
    BY <1>0, <1>2, <2>1, <2>2, SeedKeys
<1>6. m \in [1..2 -> T]
  BY <1>1, <1>3
<1> QED
  BY <1>1, <1>4, <1>5, <1>6, OneToOne

-----------------------------------------------------------------------------
(* Amounts and counts.                                                      *)

(* There are n numbers from 1 to n.                                         *)
LEMMA FirstN ==
  ASSUME NEW n \in Nat
  PROVE  IsFiniteSet(1..n) /\ Cardinality(1..n) = n
<1>1. PICK S : S = 1..n
  OBVIOUS
<1>2. IsFiniteSet(S) /\ Cardinality(S) = IF 1 > n THEN 0 ELSE n - 1 + 1
  <2>1. 1 \in Int /\ n \in Int
    OBVIOUS
  <2> QED
    BY <1>1, <2>1, FS_Interval, Zenon
<1>3. IsFiniteSet(S) /\ Cardinality(S) = n
  BY <1>2
<1> QED
  BY <1>1, <1>3, Zenon

(* Net amounts are whole.                                                   *)
LEMMA NetInt ==
  ASSUME NEW p \in Profile, NEW o \in Nat, NEW l \in Nat
  PROVE  Net(p, o, l) \in Int
<1>1. Sku(p, o, l) \in Int
  BY DEF Profile, Sku
<1> QED
  BY <1>1 DEF Net

(* What an order costs is what its lines cost together.                     *)
LEMMA OrderAmount ==
  ASSUME NEW p, Ample(p), NEW o \in 1..p.orders
  PROVE  ExpectedAmount(p, o)
           = MapThenSumSet(LAMBDA i : i.net,
                           {i \in AllRows(p, "fact_order_item") : i.refs.order_id = o})
<1>1. PICK S, T : S = 1..p.items /\ T = {i \in AllRows(p, "fact_order_item") : i.refs.order_id = o}
  OBVIOUS
<1>2. PICK f : f = [l \in S |-> Net(p, o, l)]
  OBVIOUS
<1>3. PICK g : g = [i \in T |-> i.net]
  OBVIOUS
<1>4. PICK m : m = [l \in S |-> ItemRow(p, o, l)]
  OBVIOUS
<1>5. m \in Bijection(S, T)
  BY <1>1, <1>4, ItemsOfOrder
<1>6. ExpectedAmount(p, o) = Sum(f, S)
  BY <1>1, <1>2, LineSum DEF ExpectedAmount
<1>7. MapThenSumSet(LAMBDA i : i.net, T) = Sum(g, T)
  BY <1>3, NetSum
<1>8. IsFiniteSet(S)
  BY <1>1, FirstN DEF Ample, Profile
<1>9. \A l \in S : f[l] \in Int
  BY <1>1, <1>2, NetInt DEF Ample, Profile
<1>10. \A l \in S : g[m[l]] = f[l]
  <2>1. m \in [S -> T]
    BY <1>5 DEF Bijection, Injection
  <2> QED
    BY <1>2, <1>3, <1>4, <2>1 DEF ItemRow
<1>11. Sum(g, T) = Sum(f, S)
  BY <1>5, <1>8, <1>9, <1>10, SumRenamed
<1> QED
  BY <1>1, <1>6, <1>7, <1>11

(* What a refund pays back is what its lines pay back together.             *)
LEMMA RefundAmount ==
  ASSUME NEW p, Ample(p), NEW o \in Whole(p, 4)
  PROVE  RefundRow(p, o).amount
           = MapThenSumSet(LAMBDA i : i.amount,
               {i \in AllRows(p, "fact_refund_item") : i.refs.refund_id = RefundId(p, o)})
<1>1. PICK S, T : /\ S = 1..2
                  /\ T = {i \in AllRows(p, "fact_refund_item") : i.refs.refund_id = RefundId(p, o)}
  OBVIOUS
<1>2. PICK f : f = [l \in S |-> Net(p, o, l)]
  OBVIOUS
<1>3. PICK g : g = [i \in T |-> i.amount]
  OBVIOUS
<1>4. PICK m : m = [l \in S |-> RefundItemRow(p, o, l)]
  OBVIOUS
<1>5. m \in Bijection(S, T)
  BY <1>1, <1>4, LinesOfRefund
<1>6. RefundRow(p, o).amount = Sum(f, S)
  <2>1. RefundedLines(p) = S
    BY <1>1 DEF RefundedLines, Ample, Profile
  <2>2. RefundRow(p, o).amount = MapThenSumSet(LAMBDA l : Net(p, o, l), RefundedLines(p))
    BY DEF RefundRow
  <2> QED
    BY <1>2, <2>1, <2>2, LineSum
<1>7. MapThenSumSet(LAMBDA i : i.amount, T) = Sum(g, T)
  BY <1>3, AmountSum
<1>8. IsFiniteSet(S)
  <2>1. 2 \in Nat
    OBVIOUS
  <2> QED
    BY <1>1, <2>1, FirstN
<1>9. \A l \in S : f[l] \in Int
  <2>1. o \in Nat
    BY WholeIs DEF Ample, Profile
  <2> QED
    BY <1>1, <1>2, <2>1, NetInt DEF Ample
<1>10. \A l \in S : g[m[l]] = f[l]
  <2>1. m \in [S -> T]
    BY <1>5 DEF Bijection, Injection
  <2> QED
    BY <1>2, <1>3, <1>4, <2>1 DEF RefundItemRow
<1>11. Sum(g, T) = Sum(f, S)
  BY <1>5, <1>8, <1>9, <1>10, SumRenamed
<1> QED
  BY <1>1, <1>6, <1>7, <1>11

(* How many rows there are.                                                  *)
LEMMA Counts ==
  ASSUME NEW p, Ample(p)
  PROVE  /\ Cardinality(AllRows(p, "fact_order_item")) = p.orders * p.items
         /\ IsFiniteSet(AllRows(p, "fact_refund")) /\ Cardinality(AllRows(p, "fact_refund")) \in Nat \ {0}
         /\ Cardinality(AllRows(p, "fact_refund_item")) = Cardinality(AllRows(p, "fact_refund")) * 2
         /\ \A o \in 1..p.orders :
              Cardinality({i \in AllRows(p, "fact_order_item") : i.refs.order_id = o}) = p.items
         /\ \A o \in Whole(p, 4) :
              Cardinality({i \in AllRows(p, "fact_refund_item") : i.refs.refund_id = RefundId(p, o)}) = 2
<1>1. p.orders \in Nat /\ p.items \in Nat /\ p.orders >= 20
  BY DEF Ample, Profile
<1>2. IsFiniteSet(1..p.orders) /\ Cardinality(1..p.orders) = p.orders
  BY <1>1, FirstN
<1>3. IsFiniteSet(1..p.items) /\ Cardinality(1..p.items) = p.items
  BY <1>1, FirstN
<1>4. IsFiniteSet(1..2) /\ Cardinality(1..2) = 2
  <2>1. 2 \in Nat
    OBVIOUS
  <2> QED
    BY <2>1, FirstN
<1>5. ASSUME NEW S, IsFiniteSet(S), NEW T, NEW m, m \in Bijection(S, T)
      PROVE  IsFiniteSet(T) /\ Cardinality(T) = Cardinality(S)
  BY <1>5, FS_Bijection DEF ExistsBijection
<1>6. Cardinality(AllRows(p, "fact_order_item")) = p.orders * p.items
  <2>1. PICK S, T : S = Whole(p, 2) /\ T = AllRows(p, "fact_order_item")
    OBVIOUS
  <2>2. S = (1..p.orders) \X (1..p.items)
    BY <2>1, WholeIs
  <2>3. IsFiniteSet(S) /\ Cardinality(S) = p.orders * p.items
    BY <1>2, <1>3, <2>2, FS_Product, ZenonT(60)
  <2>4. [i \in S |-> Row(p, 2, i)] \in Bijection(S, T)
    BY <2>1, AllOnce, BatchTableNames
  <2>5. Cardinality(T) = Cardinality(S)
    BY <1>5, <2>3, <2>4
  <2> QED
    BY <2>1, <2>3, <2>5
<1>7. IsFiniteSet(Whole(p, 4)) /\ Cardinality(Whole(p, 4)) \in Nat \ {0}
  <2>1. Whole(p, 4) \in SUBSET (1..p.orders)
    BY WholeIs
  <2>2. IsFiniteSet(Whole(p, 4))
    BY <1>2, <2>1, FS_Subset
  <2>3. 20 \in Whole(p, 4)
    <3>1. Refunded(20) /\ 20 \in 1..p.orders
      BY <1>1 DEF Refunded, Cancelled
    <3> QED
      BY <3>1, WholeIs
  <2> QED
    BY <2>2, <2>3, FS_EmptySet, FS_CardinalityType
<1>8. /\ IsFiniteSet(AllRows(p, "fact_refund"))
      /\ Cardinality(AllRows(p, "fact_refund")) = Cardinality(Whole(p, 4))
  <2>1. PICK S, T : S = Whole(p, 4) /\ T = AllRows(p, "fact_refund")
    OBVIOUS
  <2>2. [i \in S |-> Row(p, 4, i)] \in Bijection(S, T)
    BY <2>1, AllOnce, BatchTableNames
  <2>3. IsFiniteSet(T) /\ Cardinality(T) = Cardinality(S)
    BY <1>5, <1>7, <2>1, <2>2
  <2> QED
    BY <2>1, <2>3
<1>9. Cardinality(AllRows(p, "fact_refund_item")) = Cardinality(Whole(p, 4)) * 2
  <2>1. PICK S, T : S = Whole(p, 5) /\ T = AllRows(p, "fact_refund_item")
    OBVIOUS
  <2>2. S = Whole(p, 4) \X (1..2)
    BY <2>1, WholeIs
  <2>3. IsFiniteSet(S) /\ Cardinality(S) = Cardinality(Whole(p, 4)) * 2
    BY <1>4, <1>7, <2>2, FS_Product
  <2>4. [i \in S |-> Row(p, 5, i)] \in Bijection(S, T)
    BY <2>1, AllOnce, BatchTableNames
  <2>5. Cardinality(T) = Cardinality(S)
    BY <1>5, <2>3, <2>4
  <2> QED
    BY <2>1, <2>3, <2>5
<1>10. ASSUME NEW o \in 1..p.orders
       PROVE  Cardinality({i \in AllRows(p, "fact_order_item") : i.refs.order_id = o}) = p.items
  <2>1. PICK T : T = {i \in AllRows(p, "fact_order_item") : i.refs.order_id = o}
    OBVIOUS
  <2>2. [l \in 1..p.items |-> ItemRow(p, o, l)] \in Bijection(1..p.items, T)
    BY <2>1, ItemsOfOrder
  <2>3. Cardinality(T) = p.items
    BY <1>3, <1>5, <2>2
  <2> QED
    BY <2>1, <2>3
<1>11. ASSUME NEW o \in Whole(p, 4)
       PROVE  Cardinality({i \in AllRows(p, "fact_refund_item") : i.refs.refund_id = RefundId(p, o)}) = 2
  <2>1. PICK T : T = {i \in AllRows(p, "fact_refund_item") : i.refs.refund_id = RefundId(p, o)}
    OBVIOUS
  <2>2. [l \in 1..2 |-> RefundItemRow(p, o, l)] \in Bijection(1..2, T)
    BY <2>1, LinesOfRefund
  <2>3. Cardinality(T) = 2
    BY <1>4, <1>5, <2>2
  <2> QED
    BY <2>1, <2>3
<1> QED
  BY <1>6, <1>7, <1>8, <1>9, <1>10, <1>11

\* the gate on the join: its rows, and the lines of refunds
JoinGate(items, refunds, refundItems) ==
  MapThenSumSet(LAMBDA r : Cardinality({i \in items : i.refs.order_id = r.refs.order_id})
                             * Cardinality({i \in refundItems : i.refs.refund_id = r.id}),
                refunds) > Cardinality(refundItems)

(* The join of the lines of an order with those of its refund has more rows *)
(* than there are refunded lines.                                           *)
LEMMA JoinAmplified ==
  ASSUME NEW p, Ample(p)
  PROVE  JoinGate(AllRows(p, "fact_order_item"), AllRows(p, "fact_refund"),
                  AllRows(p, "fact_refund_item"))
<1>1. PICK items, refunds, refundItems :
        /\ items = AllRows(p, "fact_order_item") /\ refunds = AllRows(p, "fact_refund")
        /\ refundItems = AllRows(p, "fact_refund_item")
  OBVIOUS
<1>2. PICK f : f = [r \in refunds |-> JoinedRows(items, refundItems, r)]
  OBVIOUS
<1>3. PICK c \in Int, n \in Nat \ {0} : c = p.items * 2 /\ n = Cardinality(refunds)
  BY <1>1, Counts DEF Ample, Profile
<1>4. ASSUME NEW r \in refunds PROVE f[r] = c
  <2>1. PICK o \in Whole(p, 4) : r = RefundRow(p, o)
    <3>1. PICK o \in Whole(p, 4) : r = Row(p, 4, o)
      BY <1>1, AllOf, BatchTableNames
    <3> QED
      BY <3>1 DEF Row
  <2>2. r.refs.order_id = o /\ r.id = RefundId(p, o)
    BY <2>1 DEF RefundRow
  <2>3. o \in 1..p.orders
    BY WholeIs
  <2>4. Cardinality({i \in items : i.refs.order_id = r.refs.order_id}) = p.items
    BY <1>1, <2>2, <2>3, Counts
  <2>5. Cardinality({i \in refundItems : i.refs.refund_id = r.id}) = 2
    BY <1>1, <2>2, Counts
  <2> QED
    BY <1>2, <1>3, <2>4, <2>5 DEF JoinedRows
<1>5. Sum(f, refunds) = c * n
  BY <1>1, <1>3, <1>4, Counts, SumOfEqual
<1>6. c * n > n * 2
  <2>1. c >= 4
    BY <1>3 DEF Ample, Profile
  <2>2. PICK d \in Nat : c = 4 + d
    <3>1. c - 4 \in Nat /\ c = 4 + (c - 4)
      BY <2>1
    <3> QED
      BY <3>1
  <2>3. c * n = 4 * n + d * n /\ d * n \in Nat
    BY <2>2
  <2> QED
    BY <2>3
<1>7. Cardinality(refundItems) = n * 2
  BY <1>1, <1>3, Counts
<1>8. JoinGate(items, refunds, refundItems) <=> Sum(f, refunds) > Cardinality(refundItems)
  BY <1>2, JoinSum DEF JoinGate
<1> QED
  BY <1>1, <1>5, <1>6, <1>7, <1>8

-----------------------------------------------------------------------------
(* The gates.                                                               *)

\* the amounts of orders and of refunds are those of their lines
OrdersAgree(orders, items) ==
  \A o \in orders : o.amount = MapThenSumSet(LAMBDA i : i.net, {i \in items : i.refs.order_id = o.id})
RefundsAgree(refunds, refundItems) ==
  \A r \in refunds :
    r.amount = MapThenSumSet(LAMBDA i : i.amount, {i \in refundItems : i.refs.refund_id = r.id})

(* Every row of fact_order is that of one of the orders,                    *)
LEMMA OrderOfRow ==
  ASSUME NEW p, Ample(p), NEW x \in AllRows(p, "fact_order")
  PROVE  \E o \in 1..p.orders : x = OrderRow(p, o)
<1>1. PICK o \in Whole(p, 1) : x = Row(p, 1, o)
  BY AllOf, BatchTableNames
<1> QED
  BY <1>1, WholeIs DEF Row

(* every order has its row,                                                 *)
LEMMA OrderThere ==
  ASSUME NEW p, Ample(p), NEW o \in 1..p.orders
  PROVE  OrderRow(p, o) \in AllRows(p, "fact_order")
<1>1. o \in Whole(p, 1) /\ Row(p, 1, o) = OrderRow(p, o)
  BY WholeIs DEF Row
<1> QED
  BY <1>1, AllOf, BatchTableNames

(* and every row of fact_refund is that of a refunded order.                *)
LEMMA RefundOfRow ==
  ASSUME NEW p, Ample(p), NEW x \in AllRows(p, "fact_refund")
  PROVE  \E o \in Whole(p, 4) : x = RefundRow(p, o)
<1>1. PICK o \in Whole(p, 4) : x = Row(p, 4, o)
  BY AllOf, BatchTableNames
<1> QED
  BY <1>1 DEF Row

(* Orders cost, and refunds pay back, what their lines say.                 *)
LEMMA AmountGates ==
  ASSUME NEW p, Ample(p)
  PROVE  /\ OrdersAgree(AllRows(p, "fact_order"), AllRows(p, "fact_order_item"))
         /\ RefundsAgree(AllRows(p, "fact_refund"), AllRows(p, "fact_refund_item"))
<1>1. PICK items, refundItems : /\ items = AllRows(p, "fact_order_item")
                                /\ refundItems = AllRows(p, "fact_refund_item")
  OBVIOUS
<1>2. ASSUME NEW x \in AllRows(p, "fact_order")
      PROVE  x.amount = MapThenSumSet(LAMBDA i : i.net, {i \in items : i.refs.order_id = x.id})
  <2>1. PICK o \in 1..p.orders : x = OrderRow(p, o)
    BY OrderOfRow
  <2>2. x.id = o /\ x.amount = ExpectedAmount(p, o)
    BY <2>1 DEF OrderRow
  <2>3. ExpectedAmount(p, o)
          = MapThenSumSet(LAMBDA i : i.net, {i \in items : i.refs.order_id = o})
    BY <1>1, OrderAmount, Zenon
  <2> QED
    BY <2>2, <2>3, Zenon
<1>3. ASSUME NEW x \in AllRows(p, "fact_refund")
      PROVE  x.amount = MapThenSumSet(LAMBDA i : i.amount, {i \in refundItems : i.refs.refund_id = x.id})
  <2>1. PICK o \in Whole(p, 4) : x = RefundRow(p, o)
    BY RefundOfRow
  <2>2. x.id = RefundId(p, o)
    BY <2>1 DEF RefundRow
  <2>3. RefundRow(p, o).amount
          = MapThenSumSet(LAMBDA i : i.amount, {i \in refundItems : i.refs.refund_id = RefundId(p, o)})
    BY <1>1, RefundAmount, Zenon
  <2> QED
    BY <2>1, <2>2, <2>3, Zenon
<1>4. OrdersAgree(AllRows(p, "fact_order"), items)
  BY <1>2, Zenon DEF OrdersAgree
<1>5. RefundsAgree(AllRows(p, "fact_refund"), refundItems)
  BY <1>3, Zenon DEF RefundsAgree
<1> QED
  BY <1>1, <1>4, <1>5

(* An order is paid exactly when it is not cancelled.                       *)
LEMMA PaymentGate ==
  ASSUME NEW p, Ample(p), NEW x \in AllRows(p, "fact_order")
  PROVE  (\E q \in AllRows(p, "fact_payment") : q.refs.order_id = x.id) <=> ~x.cancelled
<1>1. PICK o \in 1..p.orders : x = OrderRow(p, o)
  BY OrderOfRow
<1>2. x.id = o /\ (x.cancelled <=> Cancelled(o))
  BY <1>1 DEF OrderRow
<1>3. ASSUME NEW q \in AllRows(p, "fact_payment"), q.refs.order_id = o PROVE ~Cancelled(o)
  <2>1. PICK u \in Whole(p, 3) : q = Row(p, 3, u)
    BY AllOf, BatchTableNames
  <2>2. q.refs.order_id = u /\ ~Cancelled(u)
    BY <2>1, WholeIs DEF Row, PaymentRow
  <2> QED
    BY <1>3, <2>2
<1>4. ASSUME ~Cancelled(o) PROVE \E q \in AllRows(p, "fact_payment") : q.refs.order_id = o
  <2>1. o \in Whole(p, 3) /\ Row(p, 3, o).refs.order_id = o
    BY <1>4, WholeIs DEF Row, PaymentRow
  <2> QED
    BY <2>1, AllOf, BatchTableNames
<1> QED
  BY <1>2, <1>3, <1>4

(* A table of a fixture has the rows of the fixture.                        *)
LEMMA FixtureAll ==
  ASSUME NEW p, NEW k \in 1..19
  PROVE  AllRows(p, Fixture[k].table) = Range(Fixture[k].rows)
<1>1. Of(Copies(p), Fixture[k].table) = {<<0, k>>} /\ Copies(p)[<<0, k>>] = Fixture[k]
  BY FixtureTurn, FixturePlace
<1> QED
  BY <1>1 DEF AllRows

(* The snapshots add up, and two products have the same name.               *)
LEMMA FixtureGates ==
  ASSUME NEW p
  PROVE  /\ \A s \in AllRows(p, "fact_inventory_snapshot") : s.available = s.on_hand - s.reserved
         /\ \E a, b \in AllRows(p, "dim_product") : a.id # b.id /\ a.product_name = b.product_name
<1>1. /\ Fixture[18] = Copy("fact_inventory_snapshot", Snapshots)
      /\ Fixture[9] = Copy("dim_product", Products)
  BY DEF Fixture
<1>2. /\ Fixture[18].table = "fact_inventory_snapshot" /\ Fixture[18].rows = Snapshots
      /\ Fixture[9].table = "dim_product" /\ Fixture[9].rows = Products
  BY <1>1 DEF Copy
<1>3. 18 \in 1..19 /\ 9 \in 1..19
  OBVIOUS
<1>4. /\ AllRows(p, "fact_inventory_snapshot") = Range(Snapshots)
      /\ AllRows(p, "dim_product") = Range(Products)
  BY <1>2, <1>3, FixtureAll
<1>5. ASSUME NEW s \in Range(Snapshots) PROVE s.available = s.on_hand - s.reserved
  <2>1. PICK i \in 1..12 : s = Snapshots[i]
    BY DEF Range, Snapshots
  <2>2. s.available = 100 + i - (i % 5) /\ s.on_hand = 100 + i /\ s.reserved = i % 5
    BY <2>1 DEF Snapshots
  <2> QED
    BY <2>2
<1>6. \E a, b \in Range(Products) : a.id # b.id /\ a.product_name = b.product_name
  <2>1. Products[1] \in Range(Products) /\ Products[2] \in Range(Products)
    BY DEF Range, Products
  <2>2. /\ Products[1].id = 1 /\ Products[2].id = 2
        /\ Products[1].product_name = Products[2].product_name
    BY DEF Products
  <2> QED
    BY <2>1, <2>2
<1> QED
  BY <1>4, <1>5, <1>6

(* There are a guest and a test order, and the first order costs what is    *)
(* expected of it.                                                          *)
LEMMA BoundaryGates ==
  ASSUME NEW p, Ample(p)
  PROVE  /\ \E o \in AllRows(p, "fact_order") : o.refs.customer_id = Null
         /\ \E o \in AllRows(p, "fact_order") : o.test
         /\ \A o \in AllRows(p, "fact_order") : o.id = 1 => o.amount = ExpectedAmount(p, 1)
<1>1. 4 \in 1..p.orders /\ 2 \in 1..p.orders
  BY DEF Ample, Profile
<1>2. OrderRow(p, 4).refs.customer_id = Null
  BY DEF OrderRow, Customer
<1>3. OrderRow(p, 2).test
  BY DEF OrderRow, IsTest
<1>4. \A x \in AllRows(p, "fact_order") : x.id = 1 => x.amount = ExpectedAmount(p, 1)
  <2> SUFFICES ASSUME NEW x \in AllRows(p, "fact_order"), x.id = 1
               PROVE  x.amount = ExpectedAmount(p, 1)
    OBVIOUS
  <2>1. PICK o \in 1..p.orders : x = OrderRow(p, o)
    BY OrderOfRow
  <2>2. x.id = o /\ x.amount = ExpectedAmount(p, o)
    BY <2>1 DEF OrderRow
  <2> QED
    BY <2>2
<1> QED
  BY <1>1, <1>2, <1>3, <1>4, OrderThere

(* The gates, one by one.                                                   *)
LEMMA GatesAre ==
  ASSUME NEW p,
         OrdersAgree(AllRows(p, "fact_order"), AllRows(p, "fact_order_item")),
         \A o \in AllRows(p, "fact_order") :
           (\E q \in AllRows(p, "fact_payment") : q.refs.order_id = o.id) <=> ~o.cancelled,
         \A s \in AllRows(p, "fact_inventory_snapshot") : s.available = s.on_hand - s.reserved,
         RefundsAgree(AllRows(p, "fact_refund"), AllRows(p, "fact_refund_item")),
         \E o \in AllRows(p, "fact_order") : o.refs.customer_id = Null,
         \E o \in AllRows(p, "fact_order") : o.test,
         \E a, b \in AllRows(p, "dim_product") : a.id # b.id /\ a.product_name = b.product_name,
         JoinGate(AllRows(p, "fact_order_item"), AllRows(p, "fact_refund"),
                  AllRows(p, "fact_refund_item")),
         Cardinality(AllRows(p, "fact_order_item")) = p.orders * p.items,
         \A o \in AllRows(p, "fact_order") : o.id = 1 => o.amount = ExpectedAmount(p, 1)
  PROVE  Gates(p, Copies(p))
BY Zenon DEF Gates, AllRows, OrdersAgree, RefundsAgree, JoinGate

(* The rows that a seed has copied pass every gate of validate_dataset, for *)
(* every ample profile: so do tiny, dev and scale                           *)
(* (datasets/generator/model.py:44).                                        *)
THEOREM SeedValidated ==
  ASSUME NEW p, Ample(p)
  PROVE  Gates(p, Copies(p))
BY AmountGates, PaymentGate, FixtureGates, BoundaryGates, JoinAmplified, Counts, GatesAre

-----------------------------------------------------------------------------
(* The generator is never refused.                                          *)

(* A seed is never refused, whichever profile it is started with: all its   *)
(* copies are accepted, and the rows they leave pass every gate.            *)
THEOREM SeedsAccepted == Spec => []SeedNeverRefused
<1>1. ASSUME NEW p \in Profiles PROVE CopiesFit[p] /\ GatesPass[p]
  <2>1. Ample(p) /\ p \in Profile
    BY ProfilesAssumption DEF Ample
  <2>2. CopiesAccepted(Copies(p))
    BY <2>1, SeedCopied
  <2>3. Gates(p, Copies(p))
    BY <2>1, SeedValidated
  <2>. QED BY <2>2, <2>3 DEF CopiesFit, GatesPass
<1>2. IInv => SeedNeverRefused
  BY <1>1 DEF IInv, DataInv, SeederInv, SeedNeverRefused
<1>. QED
  BY Invariance, <1>2, PTL
=============================================================================
