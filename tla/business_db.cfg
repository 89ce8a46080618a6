SPECIFICATION FairSpec
CONSTANTS
  m1 = m1  m2 = m2  s1 = s1  s2 = s2
  Migrator = {m1, m2}
  Seeder = {s1, s2}
  Nobody = Nobody
  MaxVersion = 2
  Schema = 1
  Profiles <- BothProfiles
  NoProfile = NoProfile
  MaxActive = 2
  MaxRewrites = 1
CHECK_DEADLOCK FALSE
INVARIANTS
  MigrationAtomic
  MigrationsInOrder
  FinishedRunGrants
  SnapshotWhole
  SeedNeverRefused
PROPERTIES
  RunsEnd
