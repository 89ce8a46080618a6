---------------------------- MODULE BusinessDatabase ----------------------------
(***************************************************************************)
(* The business database: runs of scripts/migrate_business.py, which       *)
(* create the reader role, apply the migration files                       *)
(* (datasets/migrations.py) and grant the reader its tables, and runs of   *)
(* scripts/seed_data.py, which replace the data                            *)
(* (datasets/generator/database.py), while a developer adds and rewrites   *)
(* migration files.                                                        *)
(*                                                                         *)
(* A migration is one transaction under an advisory lock.  The reader role *)
(* and the grants are single statements, each committed by itself.  A seed *)
(* is one transaction that begins by locking every table (TRUNCATE).  A    *)
(* run may end between any two statements: it dies, loses its connection,  *)
(* or a statement is refused (another run created the role first, two      *)
(* grants met).                                                            *)
(***************************************************************************)
EXTENDS SeedRules

CONSTANTS
  Migrator,     \* runs of migrate_business.py
  Seeder,       \* runs of seed_data.py
  Nobody,       \* no run holds the lock
  MaxVersion,   \* versions are 1..MaxVersion
  Schema,       \* SCHEMA_VERSION
  Profiles,     \* the profiles a seed is started with
  NoProfile,    \* the tables are empty, no dataset_run yet
  MaxActive,    \* bound on the runs under way at once
  MaxRewrites   \* bound on the rewrites of migration files

Version == 1..MaxVersion

ASSUME RunsAssumption == Nobody \notin Migrator \cup Seeder /\ Migrator \cap Seeder = {}
ASSUME VersionAssumption == MaxVersion \in Nat /\ Schema \in Version
ASSUME ProfilesAssumption == NoProfile \notin Profiles /\ \A p \in Profiles : Ample(p)
ASSUME BoundsAssumption == MaxActive \in Nat \ {0} /\ MaxRewrites \in Nat

VARIABLES
  file,      \* the migration files: the edition of each version; 0: no file
  record,    \* business_schema_migration: the edition (checksum) applied; 0: no row
  executed,  \* how often the statements of each version took effect
  role,      \* the reader role: "absent", "writable" or "readonly" (its default)
  granted,   \* the versions whose tables the reader may select from
  defaults,  \* ALTER DEFAULT PRIVILEGES has been run
  lock,      \* the run that holds the advisory lock
  migrator,  \* the runs of the migration
  data,      \* what the business tables hold: the profile and its chunks copied
  datasetRun,\* the profile of the last dataset_run
  tableLock, \* the run that holds the locks of TRUNCATE
  seeder     \* the runs of the generator

schema == <<file, record, executed, role, granted, defaults, lock, migrator>>
tables == <<data, datasetRun, tableLock, seeder>>
reader == <<role, granted, defaults>>
vars == <<schema, tables>>

Edition == 0..(MaxRewrites + 1)
MigratorStage ==
  {"idle", "new role", "alter role", "connect", "next", "lock", "check", "execute", "commit",
   "grant", "default", "done", "failed"}
SeederStage == {"idle", "truncate", "copy", "validate", "commit", "done", "failed"}

MigratorRun ==
  [stage : MigratorStage, todo : SUBSET Version, version : Version \cup {0}, read : Edition,
   seen : SUBSET Version, pending : {0, 1}, auto : BOOLEAN]
SeederRun == [stage : SeederStage, profile : Profiles \cup {NoProfile}, chunks : Nat]

NewSeeder == [stage |-> "idle", profile |-> NoProfile, chunks |-> 0]
\* a run that is not under way has nothing but the versions it has seen
Ended(stage, seen) ==
  [stage |-> stage, todo |-> {}, version |-> 0, read |-> 0, seen |-> seen,
   pending |-> 0, auto |-> FALSE]
NewMigrator == Ended("idle", {})
Active ==
  {m \in Migrator : migrator[m].stage \notin {"idle", "done", "failed"}}
    \cup {s \in Seeder : seeder[s].stage \notin {"idle", "done", "failed"}}

Init ==
  /\ file = [v \in Version |-> IF v <= Schema THEN 1 ELSE 0]
  /\ record = [v \in Version |-> 0]
  /\ executed = [v \in Version |-> 0]
  /\ role = "absent" /\ granted = {} /\ defaults = FALSE
  /\ lock = Nobody
  /\ migrator = [m \in Migrator |-> NewMigrator]
  /\ data = [profile |-> NoProfile, chunks |-> 0]
  /\ datasetRun = NoProfile
  /\ tableLock = Nobody
  /\ seeder = [s \in Seeder |-> NewSeeder]

-----------------------------------------------------------------------------
(* migrate: _ensure_reader_role on a connection of its own.                 *)
At(m, stage) == migrator[m].stage = stage
Become(m, run) == migrator' = [migrator EXCEPT ![m] = run]
Go(m, stage) == Become(m, [migrator[m] EXCEPT !.stage = stage])

LookForRole(m) ==
  /\ At(m, "idle") /\ Cardinality(Active) < MaxActive
  /\ Go(m, IF role = "absent" THEN "new role" ELSE "connect")
  /\ UNCHANGED <<file, record, executed, reader, lock, tables>>

\* CREATE ROLE is refused when another run was first
CreateRole(m) ==
  /\ At(m, "new role")
  /\ role' = IF role = "absent" THEN "writable" ELSE role
  /\ IF role = "absent" THEN Go(m, "alter role") ELSE Become(m, Ended("failed", {}))
  /\ UNCHANGED <<file, record, executed, granted, defaults, lock, tables>>

AlterRole(m) ==
  /\ At(m, "alter role")
  /\ role' = "readonly"
  /\ Go(m, "connect")
  /\ UNCHANGED <<file, record, executed, granted, defaults, lock, tables>>

(* apply_migrations: the table of versions is there, the files are listed   *)
(* once; then one transaction for each file, in the order of the versions.  *)
ListFiles(m) ==
  /\ At(m, "connect")
  /\ Become(m, [migrator[m] EXCEPT !.stage = "next", !.todo = {v \in Version : file[v] # 0}])
  /\ UNCHANGED <<file, record, executed, reader, lock, tables>>

\* mutant: migration_files in no order
ReadFileUnsorted(m) ==
  /\ At(m, "next")
  /\ \E v \in migrator[m].todo :
       Become(m, [migrator[m] EXCEPT !.stage = "lock", !.todo = @ \ {v},
                                     !.version = v, !.read = file[v]])
  /\ UNCHANGED <<file, record, executed, reader, lock, tables>>

ReadFile(m) ==
  /\ At(m, "next")
  /\ \E v \in migrator[m].todo :
       /\ \A u \in migrator[m].todo : v <= u
       /\ Become(m, [migrator[m] EXCEPT !.stage = "lock", !.todo = @ \ {v},
                                        !.version = v, !.read = file[v]])
  /\ UNCHANGED <<file, record, executed, reader, lock, tables>>

TakeLock(m) ==
  /\ At(m, "lock")
  /\ lock = Nobody
  /\ lock' = m
  /\ Go(m, "check")
  /\ UNCHANGED <<file, record, executed, reader, tables>>

\* mutant: a version that was changed since is looked at again, for ever
CheckVersionRetries(m) ==
  LET v == migrator[m].version
  IN /\ At(m, "check")
     /\ IF record[v] = 0
        THEN Go(m, "execute") /\ UNCHANGED lock
        ELSE /\ lock' = Nobody
             /\ IF record[v] = migrator[m].read
                THEN Become(m, [migrator[m] EXCEPT !.stage = "next", !.seen = @ \cup {v}])
                ELSE Go(m, "lock")
     /\ UNCHANGED <<file, record, executed, reader, tables>>

\* SELECT checksum: applied already, changed since, or to be executed
CheckVersion(m) ==
  LET v == migrator[m].version
  IN /\ At(m, "check")
     /\ IF record[v] = 0
        THEN Go(m, "execute") /\ UNCHANGED lock
        ELSE /\ lock' = Nobody
             /\ IF record[v] = migrator[m].read
                THEN Become(m, [migrator[m] EXCEPT !.stage = "next", !.seen = @ \cup {v}])
                ELSE Become(m, Ended("failed", {}))
     /\ UNCHANGED <<file, record, executed, reader, tables>>

\* mutant: the statements are committed before the row of the version
ExecuteAutocommit(m) ==
  /\ At(m, "execute")
  /\ executed' = [executed EXCEPT ![migrator[m].version] = @ + 1]
  /\ Go(m, "commit")
  /\ UNCHANGED <<file, record, reader, lock, tables>>

\* the tables created here get the default privileges in force
Execute(m) ==
  /\ At(m, "execute")
  /\ Become(m, [migrator[m] EXCEPT !.stage = "commit", !.pending = 1, !.auto = defaults])
  /\ UNCHANGED <<file, record, executed, reader, lock, tables>>

\* INSERT and commit
CommitVersion(m) ==
  LET v == migrator[m].version
  IN /\ At(m, "commit")
     /\ executed' = [executed EXCEPT ![v] = @ + migrator[m].pending]
     /\ record' = [record EXCEPT ![v] = migrator[m].read]
     /\ granted' = IF migrator[m].auto THEN granted \cup {v} ELSE granted
     /\ lock' = Nobody
     /\ Become(m, [migrator[m] EXCEPT !.stage = "next", !.seen = @ \cup {v},
                                      !.pending = 0, !.auto = FALSE])
     /\ UNCHANGED <<file, role, defaults, tables>>

(* After the last file the reader is granted its tables: the tables there   *)
(* are, then those to come.  The role exists by now, and is never dropped.  *)
NoMoreFiles(m) ==
  /\ At(m, "next")
  /\ migrator[m].todo = {}
  /\ Go(m, "grant")
  /\ UNCHANGED <<file, record, executed, reader, lock, tables>>

\* mutant: the default privileges are expected to do
GrantTablesSkipped(m) ==
  /\ At(m, "grant")
  /\ Go(m, "default")
  /\ UNCHANGED <<file, record, executed, reader, lock, tables>>

GrantTables(m) ==
  /\ At(m, "grant")
  /\ granted' = granted \cup {v \in Version : record[v] # 0}
  /\ Go(m, "default")
  /\ UNCHANGED <<file, record, executed, role, defaults, lock, tables>>

AlterDefaults(m) ==
  /\ At(m, "default")
  /\ defaults' = TRUE
  /\ Become(m, Ended("done", migrator[m].seen))
  /\ UNCHANGED <<file, record, executed, role, granted, lock, tables>>

\* the run ends early; its transaction is rolled back
StopMigrator(m) ==
  /\ m \in Active
  /\ Become(m, Ended("failed", {}))
  /\ lock' = IF lock = m THEN Nobody ELSE lock
  /\ UNCHANGED <<file, record, executed, reader, tables>>

\* the next version is written, or a file is changed after it was
AddFile(v) ==
  /\ file[v] = 0
  /\ \A u \in 1..(v - 1) : file[u] # 0
  /\ file' = [file EXCEPT ![v] = 1]
  /\ UNCHANGED <<record, executed, reader, lock, migrator, tables>>

RewriteFile(v) ==
  /\ file[v] \in 1..MaxRewrites
  /\ file' = [file EXCEPT ![v] = @ + 1]
  /\ UNCHANGED <<record, executed, reader, lock, migrator, tables>>

-----------------------------------------------------------------------------
(* seed_database: the version is checked before the transaction; the        *)
(* fixtures are chunk 0 and each batch of orders one more.                  *)
Latest == LET applied == {v \in Version : record[v] # 0}
          IN IF applied = {} THEN 0 ELSE CHOOSE v \in applied : \A u \in applied : u <= v

StartSeed(s, p) ==
  /\ seeder[s].stage = "idle" /\ Cardinality(Active) < MaxActive
  /\ seeder' = [seeder EXCEPT ![s] = IF Latest = Schema
                                    THEN [stage |-> "truncate", profile |-> p, chunks |-> 0]
                                    ELSE [NewSeeder EXCEPT !.stage = "failed"]]
  /\ UNCHANGED <<schema, data, datasetRun, tableLock>>

Truncate(s) ==
  /\ seeder[s].stage = "truncate"
  /\ tableLock = Nobody
  /\ tableLock' = s
  /\ seeder' = [seeder EXCEPT ![s].stage = "copy"]
  /\ UNCHANGED <<schema, data, datasetRun>>

\* mutant: every chunk is committed by itself
CopyChunkAutocommit(s) ==
  /\ seeder[s].stage = "copy"
  /\ data' = [profile |-> seeder[s].profile, chunks |-> seeder[s].chunks + 1]
  /\ seeder' = [seeder EXCEPT ![s] =
       [seeder[s] EXCEPT !.chunks = @ + 1,
                         !.stage = IF seeder[s].chunks = NumBatches(seeder[s].profile)
                                   THEN "validate" ELSE "copy"]]
  /\ UNCHANGED <<schema, datasetRun, tableLock>>

CopyChunk(s) ==
  /\ seeder[s].stage = "copy"
  /\ seeder' = [seeder EXCEPT ![s] =
       [seeder[s] EXCEPT !.chunks = @ + 1,
                         !.stage = IF seeder[s].chunks = NumBatches(seeder[s].profile)
                                   THEN "validate" ELSE "copy"]]
  /\ UNCHANGED <<schema, data, datasetRun, tableLock>>

\* validate_dataset passes, dataset_run is inserted; what fails it is StopSeeder
Validate(s) ==
  /\ seeder[s].stage = "validate"
  /\ seeder' = [seeder EXCEPT ![s].stage = "commit"]
  /\ UNCHANGED <<schema, data, datasetRun, tableLock>>

CommitSeed(s) ==
  /\ seeder[s].stage = "commit"
  /\ data' = [profile |-> seeder[s].profile, chunks |-> seeder[s].chunks]
  /\ datasetRun' = seeder[s].profile
  /\ tableLock' = Nobody
  /\ seeder' = [seeder EXCEPT ![s] = [NewSeeder EXCEPT !.stage = "done"]]
  /\ UNCHANGED schema

StopSeeder(s) ==
  /\ s \in Active
  /\ seeder' = [seeder EXCEPT ![s] = [NewSeeder EXCEPT !.stage = "failed"]]
  /\ tableLock' = IF tableLock = s THEN Nobody ELSE tableLock
  /\ UNCHANGED <<schema, data, datasetRun>>

MigratorStep(m) ==
  \/ LookForRole(m) \/ CreateRole(m) \/ AlterRole(m) \/ ListFiles(m) \/ ReadFile(m)
  \/ TakeLock(m) \/ CheckVersion(m) \/ Execute(m) \/ CommitVersion(m)
  \/ NoMoreFiles(m) \/ GrantTables(m) \/ AlterDefaults(m)

SeederStep(s) == Truncate(s) \/ CopyChunk(s) \/ Validate(s) \/ CommitSeed(s)

Next ==
  \/ \E m \in Migrator : MigratorStep(m) \/ StopMigrator(m)
  \/ \E s \in Seeder : SeederStep(s) \/ StopSeeder(s) \/ \E p \in Profiles : StartSeed(s, p)
  \/ \E v \in Version : AddFile(v) \/ RewriteFile(v)

Spec == Init /\ [][Next]_vars

(* A started run keeps executing its statements.                            *)
FairSpec ==
  /\ Spec
  /\ \A m \in Migrator : WF_vars(MigratorStep(m))
  /\ \A s \in Seeder : WF_vars(SeederStep(s))

-----------------------------------------------------------------------------
(* Rows, runs and privileges have the types of their columns and fields.    *)
TypeOK ==
  /\ file \in [Version -> Edition] /\ record \in [Version -> Edition]
  /\ executed \in [Version -> Nat]
  /\ role \in {"absent", "writable", "readonly"} /\ granted \subseteq Version
  /\ defaults \in BOOLEAN /\ lock \in Migrator \cup {Nobody}
  /\ migrator \in [Migrator -> MigratorRun]
  /\ data \in [profile : Profiles \cup {NoProfile}, chunks : Nat]
  /\ datasetRun \in Profiles \cup {NoProfile} /\ tableLock \in Seeder \cup {Nobody}
  /\ seeder \in [Seeder -> SeederRun]

(* "已执行迁移的 SHA-256 必须保持不变": the statements of a version have taken  *)
(* effect exactly once if it is recorded and never otherwise, whichever runs *)
(* overlap and wherever they end.                                            *)
MigrationAtomic == \A v \in Version : executed[v] = IF record[v] = 0 THEN 0 ELSE 1

(* A version is applied only on top of all the versions before it, also when *)
(* two runs have listed different files or one stops at a changed file.      *)
MigrationsInOrder ==
  \A v \in Version : record[v] # 0 => \A u \in 1..(v - 1) : record[u] # 0

(* "在每次运行后修复 reader 授权": once a run has finished, the reader may    *)
(* select from the tables of every version that run has found or applied.    *)
FinishedRunGrants ==
  \A m \in Migrator : At(m, "done") => migrator[m].seen \subseteq granted

(* "调用方不会看到半新半旧的数据": what is committed is nothing, or the whole  *)
(* data set that the last dataset_run names.                                 *)
SnapshotWhole ==
  data = IF datasetRun = NoProfile THEN [profile |-> NoProfile, chunks |-> 0]
         ELSE [profile |-> datasetRun, chunks |-> NumBatches(datasetRun) + 1]

\* constants, so that they are computed once
CopiesFit == [p \in Profiles |-> CopiesAccepted(Copies(p))]
GatesPass == [p \in Profiles |-> Gates(p, Copies(p))]

(* The keys, the references and the gates never refuse what the generator    *)
(* makes of a profile: a seed only fails by a fault.                         *)
SeedNeverRefused ==
  \A s \in Seeder : /\ seeder[s].stage = "copy" => CopiesFit[seeder[s].profile]
                    /\ seeder[s].stage = "validate" => GatesPass[seeder[s].profile]

(* A run that has started ends: neither lock is held for ever.               *)
RunsEnd ==
  /\ \A m \in Migrator : ~At(m, "idle") ~> migrator[m].stage \in {"done", "failed"}
  /\ \A s \in Seeder : seeder[s].stage # "idle" ~> seeder[s].stage \in {"done", "failed"}
=============================================================================
