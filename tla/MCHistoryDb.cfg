CONSTANTS
  Writers = {w1, w2}
  Readers = {r1}
  Resetters = {s1}
  Migrations <- MCMigrations
  MaxFaults = 2
  MaxCrashes = 1
  Nobody = nobody
SPECIFICATION Spec
INVARIANTS
  TypeOK
  MigrationsAtomic
  RecordedIsDurable
  ReadsAreCommitted
PROPERTIES
  HistoryGrows
  EveryRequestEnds
CHECK_DEADLOCK FALSE
